---- MODULE Spec2Model ----
(***************************************************************************)
(* A model of the OOXML translation tool (ding113/dify-ooxml-tool):        *)
(* extraction of text segments from DOCX/XLSX/PPTX archives, the hand-off  *)
(* to the translator, the update of the stored segments and the rebuild of *)
(* the document, together with parse_file's retry loop and the             *)
(* inter-segment space rule of the rebuilder.                              *)
(*                                                                         *)
(* A text is a sequence of characters; a character is a one-element        *)
(* string.  "a" and "b" stand for letters, "1" for a digit, " " is the     *)
(* ASCII space, "TAB" a white-space character that is not a space, "." a   *)
(* closing punctuation mark, "(" an opening one, "'" a quote (both sets)   *)
(* and "-" a character of none of these classes.                           *)
(***************************************************************************)
EXTENDS Integers, Sequences, FiniteSets, TLC

VARIABLES
    input_segs,  \* SpaceRebuilder: the segment list as the caller built it
    segs,        \* SpaceRebuilder: the list object, sorted and mutated in place
    sp_pc,       \* SpaceRebuilder: "input" | "preprocessed"
    p_input,     \* parse_file: what the caller passed (validity class, defect)
    p_cfg,       \* parse_file: the parser's max_retries and retry_delay
    p_pc,        \* parse_file: "start" | "attempting" | "backoff" | "done" | "failed"
    attempt,     \* parse_file: the loop variable of the retry loop (0-based)
    outcomes,    \* parse_file: how each attempt made so far ended
    last_fault,  \* parse_file: the exception raised in the latest attempt, if any
    slept,       \* parse_file: the delays passed to time.sleep, in order
    p_result,    \* parse_file: the returned dict, reduced to success and completeness
    original_file, \* pipeline: the original document, [ftype, parts]
    storage,     \* pipeline: the session storage of one file_id
    handoff,     \* pipeline: the <segment> elements get_translation_texts returned
    translated_texts, \* pipeline: the hand-back given to update_translations
    translations,\* pipeline: the id -> text dict update_translations parsed
    rebuilt,     \* pipeline: what rebuild_document returned
    lib_segments,\* rebuild_document called directly: the caller's segment list
    pl_pc,       \* pipeline: "loaded" | "extracted" | "handed" | "updated" | ...
    chunk_call,  \* _create_chunks: its arguments xml_segments, chunk_size, ...
    chunks,      \* _create_chunks: the returned list of chunks
    ch_pc,       \* _create_chunks: "idle" | "called" | "returned"
    calls        \* update_translations: the concurrent invocations, each with
                 \* its position, its translated_texts and what it has read

space_vars == <<input_segs, segs, sp_pc>>

parse_vars == <<p_input, p_cfg, p_pc, attempt, outcomes, last_fault, slept, p_result>>

pipe_vars == <<original_file, storage, handoff, translated_texts, translations, rebuilt,
               lib_segments, pl_pc>>

chunk_vars == <<chunk_call, chunks, ch_pc>>

vars == <<input_segs, segs, sp_pc,
          p_input, p_cfg, p_pc, attempt, outcomes, last_fault, slept, p_result,
          original_file, storage, handoff, translated_texts, translations, rebuilt,
          lib_segments, pl_pc,
          chunk_call, chunks, ch_pc, calls>>

(***************************************************************************)
(* Characters and texts                                                    *)
(***************************************************************************)
Letters == {"a", "b"}

Digits == {"1"}

Whitespace == {" ", "TAB"}

\* None and a missing key of a Python dict, as values of translated_text.
None == <<"<None>">>

Absent == <<"<absent>">>

\* str.isalnum() / str.isdigit() of one character
IsAlnum(c) == c \in Letters \cup Digits

IsDigit(c) == c \in Digits

\* All sequences over S of length at most n.
SeqsUpTo(S, n) == UNION {[1..k -> S] : k \in 0..n}

RECURSIVE LStrip(_)
\* str.lstrip(): drop leading white space
LStrip(s) ==
    IF s = <<>> THEN <<>>
    ELSE IF Head(s) \in Whitespace THEN LStrip(Tail(s)) ELSE s

RECURSIVE RStrip(_)
\* str.rstrip(): drop trailing white space
RStrip(s) ==
    IF s = <<>> THEN <<>>
    ELSE IF s[Len(s)] \in Whitespace THEN RStrip(SubSeq(s, 1, Len(s) - 1)) ELSE s

\* str.strip()
Strip(s) == LStrip(RStrip(s))

\* Truthiness of a text value: None and '' are falsy.
Truthy(t) == t # None /\ t # <<>>

\* dict.get('translated_text', ''): a missing key reads as ''.
GetTranslated(t) == IF t = Absent THEN <<>> ELSE t

EndsWithSpace(t) == t # <<>> /\ t[Len(t)] = " "

StartsWithSpace(t) == t # <<>> /\ t[1] = " "

(***************************************************************************)
(* SpaceRebuilder: utils/ooxml_rebuilder.py                                *)
(***************************************************************************)
punctuation_trailing == {".", "'"}

opening_punct == {"(", "'"}

\* _should_add_space_after: alnum at both sides of the junction
_should_add_space_after(current_text, next_text) ==
    IF ~Truthy(current_text) \/ ~Truthy(next_text) THEN FALSE
    ELSE LET ct == Strip(current_text)
             nt == Strip(next_text)
         IN  IF ct = <<>> \/ nt = <<>> THEN FALSE
             ELSE IsAlnum(ct[Len(ct)]) /\ IsAlnum(nt[1])

\* The pass without its punctuation extension.
NoPunctRule(current_text, next_text) == FALSE

\* _should_add_space_after_punct: closing punctuation -> alnum, alnum -> opening
_should_add_space_after_punct(current_text, next_text) ==
    IF ~Truthy(current_text) \/ ~Truthy(next_text) THEN FALSE
    ELSE LET ct == Strip(current_text)
             nt == Strip(next_text)
         IN  IF ct = <<>> \/ nt = <<>> THEN FALSE
             ELSE LET cl == ct[Len(ct)]
                      nf == nt[1]
                  IN  \/ cl \in punctuation_trailing /\ IsAlnum(nf)
                      \/ IsAlnum(cl) /\ nf \in opening_punct

\* (current_text or '').strip()
OrEmptyStrip(t) == IF Truthy(t) THEN Strip(t) ELSE <<>>

\* The pass without the digit->digit override.
NoDigitOverride(current_text, next_text) == FALSE

\* The digit->digit override of the loop body (lines 207-213).
DigitDigit(current_text, next_text) ==
    LET ct_s == OrEmptyStrip(current_text)
        nt_s == OrEmptyStrip(next_text)
    IN  ct_s # <<>> /\ nt_s # <<>> /\ IsDigit(ct_s[Len(ct_s)]) /\ IsDigit(nt_s[1])

\* should_add as it stands when line 214 tests it.
should_add(current_text, next_text) ==
    /\ \/ _should_add_space_after(current_text, next_text)
       \/ _should_add_space_after_punct(current_text, next_text)
    /\ ~DigitDigit(current_text, next_text)

\* The text the loop body leaves in current_segment['translated_text'].
SpacedText(stored, next_stored) ==
    LET current_text == GetTranslated(stored)
        next_text == GetTranslated(next_stored)
    IN  IF /\ should_add(current_text, next_text)
           /\ Truthy(current_text)
           /\ ~EndsWithSpace(current_text)
        THEN current_text \o <<" ">>
        ELSE stored

\* The list is taken in the order in which it arrives.
KeepOrder(l) == l

\* list.sort(key=sequence_id): stable.  The element at place k of the list goes
\* to the place counted by the elements with a smaller key and those with the
\* same key that are not after it.
SortBySeq(l) ==
    LET Rank(k) == Cardinality({j \in 1..Len(l) :
                       \/ l[j].sequence_id < l[k].sequence_id
                       \/ (l[j].sequence_id = l[k].sequence_id /\ j <= k)})
    IN  [r \in 1..Len(l) |-> l[CHOOSE k \in 1..Len(l) : Rank(k) = r]]

RECURSIVE SpaceLoop(_, _)
\* for i in range(len(segments) - 1): the body mutates segments[i] in place
SpaceLoop(l, i) ==
    IF i >= Len(l) THEN l
    ELSE SpaceLoop(
           [l EXCEPT ![i].translated_text =
               SpacedText(l[i].translated_text, l[i + 1].translated_text)],
           i + 1)

_preprocess_segments_with_spaces(segments) == SpaceLoop(SortBySeq(segments), 1)

(***************************************************************************)
(* XML parts as trees, and the XPath subset the tool writes and evaluates  *)
(*                                                                         *)
(* A part is the sequence of its elements in document order.  An element   *)
(* is [parent, ns, tag, attr_t, text, preserve]: the index of its parent   *)
(* (0 for the root element), the URI of its namespace ("" for none), its   *)
(* local name, the value of its attribute t ("" if it has none), its text  *)
(* ('' and None are both <<>>) and whether it carries                      *)
(* xml:space="preserve".  URIs are abbreviated: "W" wordprocessingml, "X"  *)
(* spreadsheetml, "A" drawingml, "P" presentationml, "WP" the drawing      *)
(* anchor namespace, "R" relationships, "MC" markup-compatibility.         *)
(***************************************************************************)
\* OOXMLParser.namespaces (lines 40-51)
namespaces ==
    [p \in {"w", "r", "wp", "x", "a", "p"} |->
        CASE p = "w" -> "W"
          [] p = "r" -> "R"
          [] p = "wp" -> "WP"
          [] p = "x" -> "X"
          [] p = "a" -> "A"
          [] p = "p" -> "P"]

\* A namespace map without bindings: {} in Python.
EmptyMap == [p \in {} |-> ""]

\* The indices of a set of elements, in document order.
InOrder(S) ==
    [r \in 1..Cardinality(S) |-> CHOOSE x \in S : Cardinality({y \in S : y <= x}) = r]

\* list(parent): the children of element i (of the document node when i = 0)
ChildrenOf(nodes, i) == {j \in 1..Len(nodes) : nodes[j].parent = i}

RECURSIVE IsDescendant(_, _, _)
\* whether element j lies below element i (below the document node when i = 0)
IsDescendant(nodes, j, i) ==
    IF nodes[j].parent = i THEN TRUE
    ELSE IF nodes[j].parent = 0 THEN FALSE
    ELSE IsDescendant(nodes, nodes[j].parent, i)

DescendantsOf(nodes, i) == {j \in 1..Len(nodes) : IsDescendant(nodes, j, i)}

\* [s for s in current.getparent() if s.tag == current.tag], or [current] at the root
SameTagSiblings(nodes, i) ==
    IF nodes[i].parent = 0 THEN {i}
    ELSE {j \in ChildrenOf(nodes, nodes[i].parent) :
             nodes[j].ns = nodes[i].ns /\ nodes[j].tag = nodes[i].tag}

\* siblings.index(current) + 1
PositionOf(nodes, i) == Cardinality({j \in SameTagSiblings(nodes, i) : j <= i})

\* The prefix the parser finds for a namespace URI; "" when it knows none, and
\* for an element without namespace.
PrefixFor(ns) ==
    IF \E p \in DOMAIN namespaces : namespaces[p] = ns
    THEN CHOOSE p \in DOMAIN namespaces : namespaces[p] = ns
    ELSE ""

\* One element of path_parts: tag, or tag[position] when position > 1.
\* pos = 0 stands for a step without a predicate.
StepFor(nodes, i, axis) ==
    [axis |-> axis, prefix |-> PrefixFor(nodes[i].ns), name |-> nodes[i].tag,
     pos |-> IF PositionOf(nodes, i) > 1 THEN PositionOf(nodes, i) ELSE 0]

RECURSIVE PathTo(_, _)
\* path_parts reversed and joined with '/', after the leading '//'
PathTo(nodes, i) ==
    IF nodes[i].parent = 0 THEN <<StepFor(nodes, i, "desc")>>
    ELSE Append(PathTo(nodes, nodes[i].parent), StepFor(nodes, i, "child"))

_create_element_xpath(nodes, i) == PathTo(nodes, i)

\* lxml raises XPathEvalError for a prefix the namespace map does not bind.
UndefinedPrefix(path, nsmap) ==
    \E k \in 1..Len(path) : path[k].prefix # "" /\ path[k].prefix \notin DOMAIN nsmap

\* The name test of a step: prefix:name, or name for an element in no namespace.
NameTest(node, step, nsmap) ==
    /\ node.tag = step.name
    /\ node.ns = IF step.prefix = "" THEN "" ELSE nsmap[step.prefix]

\* The predicate [pos]: position among the siblings that pass the name test.
PosTest(nodes, j, step, nsmap) ==
    \/ step.pos = 0
    \/ step.pos = Cardinality({k \in ChildrenOf(nodes, nodes[j].parent) :
                                  k <= j /\ NameTest(nodes[k], step, nsmap)})

\* The elements one step selects from a set of context nodes.
StepFrom(nodes, ctx, step, nsmap) ==
    {j \in 1..Len(nodes) :
        /\ \E c \in ctx : IF step.axis = "child" THEN nodes[j].parent = c
                          ELSE IsDescendant(nodes, j, c)
        /\ NameTest(nodes[j], step, nsmap)
        /\ PosTest(nodes, j, step, nsmap)}

RECURSIVE EvalFrom(_, _, _, _)
EvalFrom(nodes, ctx, path, nsmap) ==
    IF path = <<>> THEN ctx
    ELSE EvalFrom(nodes, StepFrom(nodes, ctx, Head(path), nsmap), Tail(path), nsmap)

\* root.xpath(xpath, namespaces=namespace_map): the selected elements in document
\* order; an XPathEvalError is caught by every caller and counts as no element.
XPath(nodes, path, nsmap) ==
    IF path = <<>> \/ UndefinedPrefix(path, nsmap) THEN <<>>
    ELSE InOrder(EvalFrom(nodes, {0}, path, nsmap))

\* _analyze_text_spaces (lines 706-733)
_analyze_text_spaces(raw_text) ==
    IF raw_text = <<>>
    THEN [raw_text |-> <<>>, leading_spaces |-> 0, trailing_spaces |-> 0,
          is_pure_space |-> TRUE, has_content |-> FALSE]
    ELSE [raw_text |-> raw_text,
          leading_spaces |-> Len(raw_text) - Len(LStrip(raw_text)),
          trailing_spaces |-> Len(raw_text) - Len(RStrip(raw_text)),
          is_pure_space |-> Strip(raw_text) = <<>>,
          has_content |-> Strip(raw_text) # <<>>]

(***************************************************************************)
(* Extraction: utils/ooxml_parser.py                                       *)
(*                                                                         *)
(* An archive entry is [path, nodes]; zip_file.namelist() is the order of  *)
(* the entries.  A text_id is kept as the tuple of the parts its string is *)
(* built from.  shared_string_index is -1 where Python has no such key.    *)
(***************************************************************************)
RECURSIVE ConcatAll(_)
\* list.extend over a sequence of lists
ConcatAll(ss) == IF ss = <<>> THEN <<>> ELSE Head(ss) \o ConcatAll(Tail(ss))

\* The dict appended to text_segments by every _extract_* method.
NewSegment(sequence_id, text_id, text_content, xml_path, xpath, namespace_map, ssi) ==
    [sequence_id |-> sequence_id,
     text_id |-> text_id,
     original_text |-> Strip(text_content),
     translated_text |-> <<>>,
     xml_location |-> [xml_file_path |-> xml_path,
                       element_xpath |-> xpath,
                       shared_string_index |-> ssi,
                       namespace_map |-> namespace_map,
                       namespace_ref |-> ""],
     space_info |-> _analyze_text_spaces(text_content)]

\* '//prefix:name'
AnyNamed(prefix, name) == <<[axis |-> "desc", prefix |-> prefix, name |-> name, pos |-> 0]>>

\* The body shared by _extract_docx_document_text and _extract_pptx_slide_text:
\* one segment per element found, numbered from 0 within the part.
TextElementSegments(part, text_elements, namespace_map) ==
    [k \in 1..Len(text_elements) |->
        NewSegment(k - 1, <<part.path, k - 1>>, part.nodes[text_elements[k]].text,
                   part.path, _create_element_xpath(part.nodes, text_elements[k]),
                   namespace_map, -1)]

\* _extract_docx_document_text (lines 174-218)
_extract_docx_document_text(part) ==
    TextElementSegments(part, XPath(part.nodes, AnyNamed("w", "t"), namespaces),
                        [p \in {"w"} |-> namespaces["w"]])

\* _extract_pptx_slide_text (lines 440-501)
_extract_pptx_slide_text(part) ==
    TextElementSegments(part, XPath(part.nodes, AnyNamed("a", "t"), namespaces),
                        [p \in {"a", "p"} |-> namespaces[p]])

\* The t elements below one si, with the indices both get in the text_id.
SharedStringItems(nodes, si_elements, prefix, nsmap) ==
    ConcatAll([k \in 1..Len(si_elements) |->
        LET t_elements ==
                InOrder({j \in DescendantsOf(nodes, si_elements[k]) :
                            NameTest(nodes[j], AnyNamed(prefix, "t")[1], nsmap)})
        IN  [m \in 1..Len(t_elements) |->
                [si_idx |-> k - 1, t_idx |-> m - 1, node |-> t_elements[m]]]])

\* _extract_xlsx_shared_strings (lines 247-330).  'x' and 'default' are bound to
\* the same URI, so the second query finds something only if the first did.
_extract_xlsx_shared_strings(part) ==
    LET excel_default_ns == [p \in {"x"} |-> "X"]
        with_ns == XPath(part.nodes, AnyNamed("x", "si"), excel_default_ns)
        using_excel_ns == with_ns # <<>>
        prefix == IF using_excel_ns THEN "x" ELSE ""
        namespace_map == IF using_excel_ns THEN excel_default_ns ELSE EmptyMap
        si_elements == IF using_excel_ns THEN with_ns
                       ELSE XPath(part.nodes, AnyNamed("", "si"), EmptyMap)
        items == SharedStringItems(part.nodes, si_elements, prefix, namespace_map)
    IN  [k \in 1..Len(items) |->
            NewSegment(k - 1,
                       <<"shared_string", items[k].si_idx, items[k].t_idx>>,
                       part.nodes[items[k].node].text,
                       part.path,
                       << [axis |-> "desc", prefix |-> prefix, name |-> "si",
                           pos |-> items[k].si_idx + 1],
                          [axis |-> "desc", prefix |-> prefix, name |-> "t",
                           pos |-> items[k].t_idx + 1] >>,
                       namespace_map,
                       items[k].si_idx)]

\* text.replace('.', '').replace('-', '').replace('+', '').isdigit()
LooksNumeric(text) ==
    LET kept == SelectSeq(text, LAMBDA c : c \notin {".", "-", "+"})
    IN  kept # <<>> /\ \A k \in 1..Len(kept) : IsDigit(kept[k])

\* //c[@t=...]/v : the v children of the cells whose attribute t passes
CellValues(nodes, ns, wanted) ==
    InOrder({j \in 1..Len(nodes) :
        /\ nodes[j].tag = "v" /\ nodes[j].ns = ns
        /\ nodes[j].parent # 0
        /\ LET c == nodes[nodes[j].parent]
           IN  c.tag = "c" /\ c.ns = ns /\ c.attr_t \in wanted})

\* //c[@t='inlineStr']/is/t
InlineStrings(nodes, ns) ==
    InOrder({j \in 1..Len(nodes) :
        /\ nodes[j].tag = "t" /\ nodes[j].ns = ns
        /\ nodes[j].parent # 0
        /\ LET is == nodes[nodes[j].parent]
           IN  /\ is.tag = "is" /\ is.ns = ns
               /\ is.parent # 0
               /\ LET c == nodes[is.parent]
                  IN  c.tag = "c" /\ c.ns = ns /\ c.attr_t = "inlineStr"})

\* The values the attribute t of a cell takes here, and those other than 's'.
CellTypes == {"", "str", "inlineStr", "s"}

\* text_cells after the four methods of lines 345-366
WorksheetTextCells(nodes) ==
    LET m12 == CellValues(nodes, "X", {"str"}) \o InlineStrings(nodes, "X")
        m3 == CellValues(nodes, "", {"str"}) \o InlineStrings(nodes, "")
        m4x == CellValues(nodes, "X", CellTypes \ {"s"})
        m4 == CellValues(nodes, "", CellTypes \ {"s"})
    IN  IF m12 # <<>> THEN m12
        ELSE IF m3 # <<>> THEN m3
        ELSE IF m4x # <<>> THEN m4x
        ELSE m4

RECURSIVE WorksheetLoop(_, _, _, _)
\* for idx, cell_elem in enumerate(text_cells): blank and numeric cells are passed over
WorksheetLoop(part, text_cells, idx, text_segments) ==
    IF idx >= Len(text_cells) THEN text_segments
    ELSE LET cell_elem == text_cells[idx + 1]
             text_content == part.nodes[cell_elem].text
         IN  WorksheetLoop(part, text_cells, idx + 1,
                IF Strip(text_content) # <<>> /\ ~LooksNumeric(text_content)
                THEN Append(text_segments,
                        NewSegment(Len(text_segments), <<part.path, idx>>, text_content,
                                   part.path, _create_element_xpath(part.nodes, cell_elem),
                                   [p \in {"x"} |-> namespaces["x"]], -1))
                ELSE text_segments)

\* _extract_xlsx_worksheet_text (lines 332-402)
_extract_xlsx_worksheet_text(part) ==
    WorksheetLoop(part, WorksheetTextCells(part.nodes), 0, <<>>)

\* The archive entries the drivers look for.
HeaderFooterPaths == {"word/header1.xml", "word/footer1.xml"}

WorksheetPaths == {"xl/worksheets/sheet1.xml"}

SlidePaths == {"ppt/slides/slide1.xml", "ppt/slides/slide2.xml"}

NotesPaths == {"ppt/notesSlides/notesSlide1.xml"}

\* The entries of the archive whose name is in S, in namelist order.
EntriesNamed(parts, S) == SelectSeq(parts, LAMBDA part : part.path \in S)

\* _parse_docx (lines 122-172): text_segments in the order the driver extends it
_parse_docx(parts) ==
    LET Of(S) == ConcatAll([k \in 1..Len(EntriesNamed(parts, S)) |->
                               _extract_docx_document_text(EntriesNamed(parts, S)[k])])
    IN  Of({"word/document.xml"}) \o Of(HeaderFooterPaths) \o Of({"word/comments.xml"})
        \o Of({"word/footnotes.xml"}) \o Of({"word/endnotes.xml"})

\* _parse_xlsx (lines 220-245)
_parse_xlsx(parts) ==
    LET shared == EntriesNamed(parts, {"xl/sharedStrings.xml"})
        sheets == EntriesNamed(parts, WorksheetPaths)
    IN  ConcatAll([k \in 1..Len(shared) |-> _extract_xlsx_shared_strings(shared[k])])
        \o ConcatAll([k \in 1..Len(sheets) |-> _extract_xlsx_worksheet_text(sheets[k])])

\* _parse_pptx (lines 404-438)
_parse_pptx(parts) ==
    LET Of(S) == ConcatAll([k \in 1..Len(EntriesNamed(parts, S)) |->
                               _extract_pptx_slide_text(EntriesNamed(parts, S)[k])])
    IN  Of(SlidePaths) \o Of(NotesPaths) \o Of({"ppt/comments/comment1.xml"})

\* The text_segments of parse_file's result for a well-formed archive.
ParsedSegments(archive) ==
    CASE archive.ftype = "docx" -> _parse_docx(archive.parts)
      [] archive.ftype = "xlsx" -> _parse_xlsx(archive.parts)
      [] archive.ftype = "pptx" -> _parse_pptx(archive.parts)

(***************************************************************************)
(* The tools: extract_ooxml_text, get_translation_texts,                   *)
(* update_translations, rebuild_ooxml_document                             *)
(*                                                                         *)
(* The ids of the hand-off ('001', '002', ...) and the keys of the stored  *)
(* mapping (str(i)) are kept as the numbers they are formatted from.       *)
(***************************************************************************)
\* The parser's own numbering is stored as it is.
KeepParserIds(text_segments) == text_segments

\* extract_ooxml_text._invoke, lines 98-102: segment["sequence_id"] = i
AssignSequenceIds(text_segments) ==
    [k \in 1..Len(text_segments) |-> [text_segments[k] EXCEPT !.sequence_id = k - 1]]

\* common_namespaces (lines 225-238): the distinct namespace maps in order of
\* first appearance
Registry(text_segments) ==
    LET Map(k) == text_segments[k].xml_location.namespace_map
        first == InOrder({k \in 1..Len(text_segments) :
                            \A j \in 1..(k - 1) : Map(j) # Map(k)})
    IN  [n \in 1..Len(first) |-> Map(first[n])]

\* f"ns_{namespace_counter}"
NsRefNames == <<"ns_0", "ns_1", "ns_2">>

\* _optimize_storage_data (lines 222-261): namespace_map gives way to namespace_ref
_optimize_storage_data(text_segments) ==
    LET registry == Registry(text_segments)
    IN  [namespace_registry |-> registry,
         segments |->
            [k \in 1..Len(text_segments) |->
                LET m == text_segments[k].xml_location.namespace_map
                    n == CHOOSE n \in 1..Len(registry) : registry[n] = m
                IN  [text_segments[k] EXCEPT !.xml_location.namespace_ref = NsRefNames[n],
                                             !.xml_location.namespace_map = EmptyMap]]]

\* The stored list handed on as it is: namespace_ref in place of namespace_map.
RestoreNothing(segments, namespace_registry) == segments

\* update_translations._restore_optimized_data (lines 502-540)
_restore_optimized_data(segments, namespace_registry) ==
    IF \A k \in 1..Len(segments) : segments[k].xml_location.namespace_ref = ""
    THEN segments
    ELSE IF namespace_registry = <<>> THEN segments
    ELSE [k \in 1..Len(segments) |->
            LET namespace_ref == segments[k].xml_location.namespace_ref
            IN  IF \E n \in 1..Len(namespace_registry) : NsRefNames[n] = namespace_ref
                THEN [segments[k] EXCEPT
                        !.xml_location.namespace_map =
                            namespace_registry[CHOOSE n \in 1..Len(namespace_registry) :
                                                  NsRefNames[n] = namespace_ref],
                        !.xml_location.namespace_ref = ""]
                ELSE segments[k]]

(***************************************************************************)
(* The hand-back: update_translations._parse_xml_translations              *)
(*                                                                         *)
(* The string is kept as the sequence of its items: a start or end tag of  *)
(* root or think, a run of text outside the segments, or a whole element   *)
(* <segment id="ID">TEXT</segment> whose TEXT has no markup.  A text is a  *)
(* sequence of characters and character groups: the references "&amp;",   *)
(* "&lt;", "&gt;", "&quot;", "&apos;", a bare "&", and "lt;" for the three *)
(* letters l, t, ; in a row.                                               *)
(***************************************************************************)
\* <segment id="ID">TEXT</segment>
Seg(id, text) == [kind |-> "segment", tag |-> "segment", id |-> id, text |-> text]

\* Text between the elements.
Txt(text) == [kind |-> "text", tag |-> "", id |-> <<>>, text |-> text]

\* <root>, </root>, <think>, </think>: kind is "open" or "close".
Tag(kind, tag) == [kind |-> kind, tag |-> tag, id |-> <<>>, text |-> <<>>]

\* get_translation_texts._xml_escape (lines 275-292)
_xml_escape(text) ==
    [k \in 1..Len(text) |->
        CASE text[k] = "&" -> "&amp;"
          [] text[k] = "<" -> "&lt;"
          [] text[k] = ">" -> "&gt;"
          [] text[k] = "\"" -> "&quot;"
          [] text[k] = "'" -> "&apos;"
          [] OTHER -> text[k]]

\* Every reference replaced by its character, in one pass: what the XML parser
\* does to the text of an element.
Unreferenced(text) ==
    [k \in 1..Len(text) |->
        CASE text[k] = "&amp;" -> "&"
          [] text[k] = "&lt;" -> "<"
          [] text[k] = "&gt;" -> ">"
          [] text[k] = "&quot;" -> "\""
          [] text[k] = "&apos;" -> "'"
          [] OTHER -> text[k]]

RECURSIVE Regrouped(_)
\* The same string with a "&" that is followed by "lt;" read as the group "&lt;".
Regrouped(text) ==
    IF text = <<>> THEN <<>>
    ELSE IF Len(text) >= 2 /\ text[1] = "&" /\ text[2] = "lt;"
         THEN <<"&lt;">> \o Regrouped(SubSeq(text, 3, Len(text)))
         ELSE <<Head(text)>> \o Regrouped(Tail(text))

\* _xml_unescape (lines 270-286): str.replace for the five references, '&amp;'
\* last, so that what it yields is not looked at again.
_xml_unescape(text) == Unreferenced(Regrouped(text))

RECURSIVE WithoutThink(_)
\* re.sub(r'<think>.*?</think>', '', content): from a <think> to the nearest
\* </think> after it, leftmost first
WithoutThink(content) ==
    LET closes(i) == {j \in (i + 1)..Len(content) : content[j] = Tag("close", "think")}
        opens == {i \in 1..Len(content) :
                     content[i] = Tag("open", "think") /\ closes(i) # {}}
    IN  IF opens = {} THEN content
        ELSE LET i == CHOOSE x \in opens : \A y \in opens : x <= y
                 j == CHOOSE x \in closes(i) : \A y \in closes(i) : x <= y
             IN  SubSeq(content, 1, i - 1)
                 \o WithoutThink(SubSeq(content, j + 1, Len(content)))

\* _remove_think_tags (lines 288-326), with the strip() that ends it
_remove_think_tags(content) ==
    LET cleaned == WithoutThink(content)
        Trim(text) == IF text = <<>> THEN <<>> ELSE <<Txt(text)>>
        left == IF cleaned # <<>> /\ Head(cleaned).kind = "text"
                THEN Trim(LStrip(Head(cleaned).text)) \o Tail(cleaned)
                ELSE cleaned
    IN  IF left # <<>> /\ left[Len(left)].kind = "text"
        THEN SubSeq(left, 1, Len(left) - 1)
             \o Trim(RStrip(left[Len(left)].text))
        ELSE left

\* if not xml_content.startswith('<root>'): wrap (lines 228-230)
Wrapped(xml_content) ==
    IF xml_content # <<>> /\ Head(xml_content) = Tag("open", "root")
    THEN xml_content
    ELSE <<Tag("open", "root")>> \o xml_content \o <<Tag("close", "root")>>

RECURSIVE Nests(_, _, _)
\* Whether ET.fromstring accepts the items: one element at the top, tags that
\* match, text outside it blank, no bare '&' in a text.  stack holds the open
\* elements, closed says that the top element has ended.
Nests(items, stack, closed) ==
    IF items = <<>> THEN stack = <<>> /\ closed
    ELSE LET item == Head(items)
             parses == \A k \in 1..Len(item.text) : item.text[k] \notin {"&", "<"}
         IN  CASE item.kind = "open" ->
                    ~closed /\ Nests(Tail(items), <<item.tag>> \o stack, FALSE)
               [] item.kind = "close" ->
                    /\ stack # <<>>
                    /\ Head(stack) = item.tag
                    /\ Nests(Tail(items), Tail(stack), Len(stack) = 1)
               [] item.kind = "segment" ->
                    stack # <<>> /\ parses /\ Nests(Tail(items), stack, closed)
               [] OTHER ->
                    /\ stack # <<>> \/ Strip(item.text) = <<>>
                    /\ parses
                    /\ Nests(Tail(items), stack, closed)

\* The dict keeps the first text given for a key.
FirstWins(translation_dict, segment_id, text) ==
    [key \in DOMAIN translation_dict \cup {segment_id} |->
        IF key \in DOMAIN translation_dict THEN translation_dict[key] ELSE text]

\* translation_dict[segment_id] = text
DictSet(translation_dict, segment_id, text) ==
    [key \in DOMAIN translation_dict \cup {segment_id} |->
        IF key = segment_id THEN text ELSE translation_dict[key]]

RECURSIVE StrictLoop(_, _)
\* for segment in segments: of _parse_xml_translations (lines 241-252); the text
\* ET hands over is unescaped once more
StrictLoop(segments, translation_dict) ==
    IF segments = <<>> THEN translation_dict
    ELSE LET segment_id == Head(segments).id
             text_content == _xml_unescape(Unreferenced(Head(segments).text))
         IN  StrictLoop(Tail(segments),
                        IF segment_id # <<>> /\ Strip(text_content) # <<>>
                        THEN DictSet(translation_dict, segment_id, Strip(text_content))
                        ELSE translation_dict)

RECURSIVE RegexLoop(_, _)
\* for segment_id, text_content in matches: (lines 340-345)
RegexLoop(matches, translation_dict) ==
    IF matches = <<>> THEN translation_dict
    ELSE LET text_content == Head(matches).text
         IN  RegexLoop(Tail(matches),
                       IF Strip(text_content) # <<>>
                       THEN DictSet(translation_dict, Head(matches).id,
                                    _xml_unescape(Strip(text_content)))
                       ELSE translation_dict)

\* _regex_fallback_parse (lines 328-352): the pattern finds every segment
\* element with a non-empty id whose text has no '<'
_regex_fallback_parse(content) ==
    RegexLoop(SelectSeq(content, LAMBDA item : item.kind = "segment" /\ item.id # <<>>),
              EmptyMap)

\* _parse_xml_translations (lines 215-268)
_parse_xml_translations(xml_content) ==
    LET wrapped == Wrapped(_remove_think_tags(xml_content))
    IN  IF Nests(wrapped, <<>>, FALSE)
        THEN StrictLoop(SelectSeq(wrapped, LAMBDA item : item.kind = "segment"), EmptyMap)
        ELSE _regex_fallback_parse(wrapped)

\* str(n): no padding
Unpadded(n) == <<<<"0", "1", "2", "3", "4", "5", "6", "7", "8", "9">>[n + 1]>>

\* f"{n:03d}" for n below 1000, as the sequence of its digits
Format03d(n) ==
    LET digit(d) == <<"0", "1", "2", "3", "4", "5", "6", "7", "8", "9">>[d + 1]
    IN  <<digit((n \div 100) % 10), digit((n \div 10) % 10), digit(n % 10)>>

\* get_translation_texts._invoke, lines 84-109, as the state the loop ends in.
\* A segment with content is appended to content_segments and its list index i
\* is mapped to the xml_id made of the length content_segments then has.
\* segment_mapping is the dict from the list index to the xml_id; json.dumps
\* writes the index as str(i) and update_translations looks up str(i).
MappingLoop(text_segments) ==
    LET content == InOrder({k \in 1..Len(text_segments) :
                              /\ text_segments[k].space_info.has_content
                              /\ ~text_segments[k].space_info.is_pure_space})
    IN  [segment_mapping |->
            [i \in {content[n] - 1 : n \in 1..Len(content)} |->
                Format03d(CHOOSE n \in 1..Len(content) : content[n] - 1 = i)],
         content_segments |->
            [n \in 1..Len(content) |-> Strip(text_segments[content[n]].original_text)]]

\* get_translation_texts._invoke up to the <segment> elements (lines 74-126)
GetTranslationTexts(text_segments) ==
    LET r == MappingLoop(SortBySeq(text_segments))
    IN  [segment_mapping |-> r.segment_mapping,
         xml_segments |-> [idx \in 1..Len(r.content_segments) |->
                              Seg(Format03d(idx), _xml_escape(r.content_segments[idx]))]]

\* ' ' * n
Spaces(n) == [k \in 1..n |-> " "]

\* The body of the loop of update_translations._invoke (lines 116-153) for the
\* segment at list index i.
UpdatedText(segment, i, segment_mapping, translation_dict) ==
    LET space_info == segment.space_info
    IN  IF space_info.is_pure_space THEN space_info.raw_text
        ELSE IF space_info.has_content /\ i \in DOMAIN segment_mapping
        THEN LET xml_id == segment_mapping[i]
             IN  IF xml_id \in DOMAIN translation_dict
                    /\ Strip(translation_dict[xml_id]) # <<>>
                 THEN Spaces(space_info.leading_spaces)
                      \o Strip(translation_dict[xml_id])
                      \o Spaces(space_info.trailing_spaces)
                 ELSE segment.translated_text
        ELSE IF space_info.has_content THEN space_info.raw_text
        ELSE segment.translated_text

\* An update that stores the segments with content only.
UpdateContentOnly(text_segments, segment_mapping, translation_dict) ==
    LET sorted == SortBySeq(text_segments)
    IN  SelectSeq([k \in 1..Len(sorted) |->
                      [sorted[k] EXCEPT !.translated_text =
                          UpdatedText(sorted[k], k - 1, segment_mapping, translation_dict)]],
                  LAMBDA segment : segment.space_info.has_content)

\* update_translations._invoke, lines 59-60 and 116-177: the list that is stored
UpdateTranslations(text_segments, segment_mapping, translation_dict) ==
    LET sorted == SortBySeq(text_segments)
    IN  [k \in 1..Len(sorted) |->
            [sorted[k] EXCEPT !.translated_text =
                UpdatedText(sorted[k], k - 1, segment_mapping, translation_dict)]]

(***************************************************************************)
(* Rebuild: utils/ooxml_rebuilder.py                                       *)
(***************************************************************************)
\* '  ' in text
HasDoubleSpace(text) == \E k \in 1..(Len(text) - 1) : text[k] = " " /\ text[k + 1] = " "

\* _requires_xml_space_preserve (lines 140-144)
_requires_xml_space_preserve(text) ==
    StartsWithSpace(text) \/ EndsWithSpace(text) \/ HasDoubleSpace(text)

\* _group_segments_by_file (lines 378-389), for one file: the segments of this
\* xml_file_path whose translated_text, read with default '', is not None
SegmentsOfFile(text_segments, xml_path) ==
    SelectSeq(text_segments,
              LAMBDA segment : /\ segment.xml_location.xml_file_path = xml_path
                               /\ GetTranslated(segment.translated_text) # None)

\* elements[0].text = final_text, with or without _apply_xml_space_preserve
SetText(root, segment, preserving) ==
    LET final_text == GetTranslated(segment.translated_text)
        elements == XPath(root, segment.xml_location.element_xpath,
                          segment.xml_location.namespace_map)
    IN  IF final_text = None \/ elements = <<>>
        THEN [root |-> root, replaced |-> 0]
        ELSE [root |-> [root EXCEPT
                          ![elements[1]].text = final_text,
                          ![elements[1]].preserve =
                              IF preserving THEN _requires_xml_space_preserve(final_text)
                              ELSE @],
              replaced |-> 1]

\* The body of the loop of _replace_xlsx_shared_strings (lines 516-553): the text
\* goes to the first t of the si with the stored shared_string_index.
SetSharedString(root, segment) ==
    LET final_text == GetTranslated(segment.translated_text)
        namespace_map == segment.xml_location.namespace_map
        shared_string_index == segment.xml_location.shared_string_index
        prefix == IF "x" \in DOMAIN namespace_map THEN "x"
                  ELSE IF "default" \in DOMAIN namespace_map THEN "default" ELSE ""
        si_elements == XPath(root,
                             <<[axis |-> "desc", prefix |-> prefix, name |-> "si",
                                pos |-> shared_string_index + 1]>>,
                             namespace_map)
        t_elements == IF si_elements = <<>> THEN <<>>
                      ELSE InOrder({j \in DescendantsOf(root, si_elements[1]) :
                                       NameTest(root[j], AnyNamed(prefix, "t")[1],
                                                namespace_map)})
    IN  IF final_text = None \/ shared_string_index = -1 \/ t_elements = <<>>
        THEN [root |-> root, replaced |-> 0]
        ELSE [root |-> [root EXCEPT ![t_elements[1]].text = final_text],
              replaced |-> 1]

RECURSIVE ReplaceLoop(_, _, _, _, _)
\* for segment in segments: of the four _replace_* methods
ReplaceLoop(kind, root, segments, k, replaced_count) ==
    IF k > Len(segments) THEN [root |-> root, replaced_count |-> replaced_count]
    ELSE LET r == CASE kind = "docx" -> SetText(root, segments[k], TRUE)
                    [] kind = "shared" -> SetSharedString(root, segments[k])
                    [] OTHER -> SetText(root, segments[k], FALSE)
         IN  ReplaceLoop(kind, r.root, segments, k + 1, replaced_count + r.replaced)

\* _replace_docx_text_in_xml (lines 391-494)
_replace_docx_text_in_xml(root, segments) ==
    ReplaceLoop("docx", root, SortBySeq(segments), 1, 0)

\* _replace_xlsx_shared_strings (lines 496-558)
_replace_xlsx_shared_strings(root, segments) ==
    ReplaceLoop("shared", root, SortBySeq(segments), 1, 0)

\* _replace_xlsx_text_in_xml (lines 560-595)
_replace_xlsx_text_in_xml(root, segments) ==
    ReplaceLoop("plain", root, SortBySeq(segments), 1, 0)

\* _replace_pptx_text_in_xml (lines 597-632)
_replace_pptx_text_in_xml(root, segments) ==
    ReplaceLoop("plain", root, SortBySeq(segments), 1, 0)

\* No archive, and what rebuild_document has returned before it was called.
NoArchive == [ftype |-> "none", parts |-> <<>>]

NothingRebuilt ==
    [archive |-> NoArchive, replaced_count |-> 0, text_segments |-> <<>>, raised |-> FALSE]

\* _secure_parse_xml (lines 52-58) returns a tree; FALSE stands for its raising.
_secure_parse_xml(part) == part.defect # "malformed"

\* test_files of _validate_original_structure (lines 653-659)
TestFiles(ftype) ==
    {"[Content_Types].xml"} \cup
    (CASE ftype = "docx" -> {"word/document.xml"}
       [] ftype = "xlsx" -> {"xl/workbook.xml"}
       [] ftype = "pptx" -> {"ppt/presentation.xml"}
       [] OTHER -> {})

\* _validate_original_structure (lines 634-678): every test file that is in the
\* archive can be read and parsed.  The layouts list the entries that matter
\* only; the required names they leave out are taken to be there and sound.
_validate_original_structure(archive) ==
    \A k \in 1..Len(archive.parts) :
        archive.parts[k].path \in TestFiles(archive.ftype)
        => archive.parts[k].defect = "none"

\* An entry no segment names is written empty.
EmptiedEntry(ftype, part, text_segments) ==
    LET segments == SegmentsOfFile(text_segments, part.path)
    IN  IF segments = <<>> THEN [root |-> <<>>, replaced_count |-> 0]
        ELSE _replace_docx_text_in_xml(part.nodes, segments)

\* What _rebuild_docx/_rebuild_xlsx/_rebuild_pptx write for one archive entry:
\* the part with its texts replaced, the original bytes when the part does not
\* parse (the except clause of each _replace_* method), a copy otherwise.
RebuiltEntry(ftype, part, text_segments) ==
    LET segments == SegmentsOfFile(text_segments, part.path)
    IN  IF segments = <<>> THEN [root |-> part.nodes, replaced_count |-> 0]
        ELSE IF ~_secure_parse_xml(part) THEN [root |-> part.nodes, replaced_count |-> 0]
        ELSE CASE ftype = "docx" -> _replace_docx_text_in_xml(part.nodes, segments)
               [] ftype = "pptx" -> _replace_pptx_text_in_xml(part.nodes, segments)
               [] ftype = "xlsx" /\ part.path = "xl/sharedStrings.xml" ->
                      _replace_xlsx_shared_strings(part.nodes, segments)
               [] OTHER -> _replace_xlsx_text_in_xml(part.nodes, segments)

RECURSIVE SumCounts(_)
SumCounts(rs) == IF rs = <<>> THEN 0 ELSE Head(rs).replaced_count + SumCounts(Tail(rs))

\* A rebuild that never raises: the entries before the first one that cannot
\* be read are returned as the new archive.
rebuild_partial(archive, text_segments) ==
    LET spaced == _preprocess_segments_with_spaces(text_segments)
        readable == {n \in 0..Len(archive.parts) :
                        \A k \in 1..n : archive.parts[k].defect # "crc"}
        last == CHOOSE n \in readable : \A m \in readable : m <= n
        rs == [k \in 1..last |-> RebuiltEntry(archive.ftype, archive.parts[k], spaced)]
    IN  [archive |-> [ftype |-> archive.ftype,
                      parts |-> [k \in 1..last |->
                                    [archive.parts[k] EXCEPT !.nodes = rs[k].root]]],
         replaced_count |-> SumCounts(rs),
         text_segments |-> spaced,
         raised |-> FALSE]

\* rebuild_document (lines 242-376): raises when the structure check fails or
\* when read() raises for an entry; else the space pass over all segments, then
\* every entry rewritten or copied in the order of original_zip.filelist.
rebuild_document(archive, text_segments) ==
    LET spaced == _preprocess_segments_with_spaces(text_segments)
        rs == [k \in 1..Len(archive.parts) |->
                  RebuiltEntry(archive.ftype, archive.parts[k], spaced)]
    IN  IF \/ ~_validate_original_structure(archive)
           \/ \E k \in 1..Len(archive.parts) : archive.parts[k].defect = "crc"
        THEN [NothingRebuilt EXCEPT !.raised = TRUE]
        ELSE [archive |-> [ftype |-> archive.ftype,
                           parts |-> [k \in 1..Len(archive.parts) |->
                                         [archive.parts[k] EXCEPT !.nodes = rs[k].root]]],
              replaced_count |-> SumCounts(rs),
              text_segments |-> spaced,
              raised |-> FALSE]

(***************************************************************************)
(* parse_file and its retry loop: utils/ooxml_parser.py                    *)
(***************************************************************************)
\* OOXMLParser.__init__ defaults
max_retries_default == 3

retry_delay_default == 1

\* What _validate_inputs can find, in the order it looks.
Validities ==
    {"empty", "too_small", "too_large", "bad_type", "bad_signature", "ok"}

\* What is wrong with the bytes of an input that passed _validate_inputs.
\*   bad_zip:       zipfile.ZipFile() raises BadZipFile
\*   too_many_files, uncompressed_too_large: the ZIP-bomb guards
\*   missing_required, empty_required, unreadable_required: the required parts
\*   malformed_part, oversized_part: a text-bearing part that does not parse
Defects ==
    {"none", "bad_zip", "too_many_files", "uncompressed_too_large",
     "missing_required", "empty_required", "unreadable_required",
     "malformed_part", "oversized_part"}

\* Exceptions that may strike an attempt whatever the input is.
TransientExc == {"MemoryError", "OverflowError", "OSError"}

\* Where in an attempt an exception is raised:
\*   open:     io.BytesIO / zipfile.ZipFile, line 79
\*   validate: inside _validate_zip_file's try block
\*   driver:   in _parse_docx/_parse_xlsx/_parse_pptx, outside the per-part try
\*   part:     inside an _extract_* method's try block
Sites == {"open", "validate", "driver", "part"}

NoFault == [exc |-> "none", site |-> "none"]

Faults == {NoFault} \cup [exc : TransientExc, site : Sites]

\* _validate_inputs: TRUE iff the input is accepted
_validate_inputs(input) == input.validity = "ok"

\* _validate_zip_file: FALSE for a ZIP bomb, a missing, empty or unreadable
\* required part, and for any exception raised inside it (lines 682-684).
_validate_zip_file(defect, fault) ==
    /\ defect \notin {"too_many_files", "uncompressed_too_large",
                      "missing_required", "empty_required", "unreadable_required"}
    /\ fault.site # "validate"

\* The except clause that an exception of the given class reaches in parse_file.
Handler(exc) ==
    CASE exc = "BadZipFile" -> "BadZipFile"
      [] exc \in {"XMLSyntaxError", "XPathEvalError"} -> "XMLSyntaxError"
      [] exc \in {"MemoryError", "OverflowError"} -> "ResourceExhaustion"
      [] OTHER -> "Exception"

\* One pass through the body of the retry loop (lines 76-114): "success", or the
\* except clause that was entered.  An exception raised inside an _extract_*
\* method is caught there (lines 216-218) and the part yields no segment.
AttemptOutcome(defect, fault) ==
    IF fault.site = "open" THEN Handler(fault.exc)
    ELSE IF defect = "bad_zip" THEN Handler("BadZipFile")
    ELSE IF ~_validate_zip_file(defect, fault) THEN Handler("ValueError")
    ELSE IF fault.site = "driver" THEN Handler(fault.exc)
    ELSE "success"

\* Whether the attempt got as far as the place where the fault strikes.
Raised(defect, fault) ==
    CASE fault.site = "none" -> FALSE
      [] fault.site = "open" -> TRUE
      [] fault.site = "validate" -> defect # "bad_zip"
      [] OTHER -> defect # "bad_zip" /\ _validate_zip_file(defect, NoFault)

\* Whether the attempt dropped the segments of a part on the floor.
PartSwallowed(defect, fault) ==
    \/ defect \in {"malformed_part", "oversized_part"}
    \/ fault.site = "part" /\ Raised(defect, fault)

\* if attempt == self.max_retries: return self._create_error_response(...)
GivesUp(att, maxr) == att = maxr

\* A constant delay.
FlatDelay(delay, att) == delay

\* time.sleep(self.retry_delay * (attempt + 1))
BackoffDelay(delay, att) == delay * (att + 1)

\* _get_batch_metadata when the key {file_id}_batch_metadata was never set: {}
NoBatchMetadata == [batch_count |-> 0, batch_size |-> 0, total_segments |-> 0]

\* The session storage before anything was stored under the file_id.  texts is
\* the value of {file_id}_texts, namespace_registry that of {file_id}_metadata,
\* segment_mapping that of {file_id}_mapping, batches[b] that of
\* {file_id}_texts_batch_{b-1} and batch_metadata that of {file_id}_batch_metadata.
EmptyStorage ==
    [texts |-> <<>>, namespace_registry |-> <<>>, segment_mapping |-> EmptyMap,
     batches |-> <<>>, batch_metadata |-> NoBatchMetadata]

\* _store_segments_batched(..., batch_size: int = 50)
batch_size == 50

\* if len(optimized_segments) > 50: (extract_ooxml_text.py line 185)
batching_above == 50

\* extract_ooxml_text._store_segments_batched (lines 263-306): the batches and
\* then the batch metadata are set; a batch key of a higher index stays as it is.
_store_segments_batched(file_store, segments) ==
    LET batch_count == (Len(segments) + batch_size - 1) \div batch_size
        Last(b) == IF b * batch_size < Len(segments) THEN b * batch_size
                                                     ELSE Len(segments)
        More == IF Len(file_store.batches) > batch_count THEN Len(file_store.batches)
                                                         ELSE batch_count
    IN  [file_store EXCEPT
            !.batches = [b \in 1..More |->
                            IF b <= batch_count
                            THEN SubSeq(segments, (b - 1) * batch_size + 1, Last(b))
                            ELSE file_store.batches[b]],
            !.batch_metadata = [batch_count |-> batch_count,
                                batch_size |-> batch_size,
                                total_segments |-> Len(segments)]]

\* extract_ooxml_text._store_extraction_data (lines 163-200): the segments go to
\* the batch keys or to {file_id}_texts, the registry to {file_id}_metadata; no
\* key is deleted.
_store_extraction_data(file_store, text_segments) ==
    LET optimized == _optimize_storage_data(text_segments)
        stored == IF Len(optimized.segments) > batching_above
                  THEN _store_segments_batched(file_store, optimized.segments)
                  ELSE [file_store EXCEPT !.texts = optimized.segments]
    IN  [stored EXCEPT !.namespace_registry = optimized.namespace_registry]

\* _get_segments_batched of the three tools (get_translation_texts.py lines
\* 318-348): the batches 0..batch_count-1, those not found left out
_get_segments_batched(file_store) ==
    ConcatAll([b \in 1..file_store.batch_metadata.batch_count |->
                  IF b <= Len(file_store.batches) THEN file_store.batches[b] ELSE <<>>])

\* _get_text_segments of the three tools (get_translation_texts.py lines
\* 234-273), before _restore_optimized_data: the batches when there is batch
\* metadata, {file_id}_texts otherwise
_get_text_segments(file_store) ==
    IF file_store.batch_metadata # NoBatchMetadata
    THEN _get_segments_batched(file_store)
    ELSE file_store.texts

\* The tools at rest: no document has been given to them.
PipeIdle ==
    /\ original_file = NoArchive
    /\ storage = EmptyStorage
    /\ handoff = <<>>
    /\ translated_texts = <<>>
    /\ translations = EmptyMap
    /\ rebuilt = NothingRebuilt
    /\ lib_segments = <<>>
    /\ pl_pc = "idle"

\* The space pass at rest: no list has been handed to it.
SpaceIdle ==
    /\ sp_pc = "idle"
    /\ input_segs = <<>>
    /\ segs = <<>>

\* _create_chunks at rest: it has not been called.
ChunkIdle ==
    /\ chunk_call = [xml_segments |-> <<>>, chunk_size |-> 0, max_segments_per_chunk |-> 0]
    /\ chunks = <<>>
    /\ ch_pc = "idle"

\* No invocation of update_translations runs beside the pipeline.
CallsIdle == calls = <<>>

\* parse_file at rest: nothing has been passed to it.
ParseIdle ==
    /\ p_input = [validity |-> "ok", defect |-> "none"]
    /\ p_cfg = [max_retries |-> max_retries_default, retry_delay |-> retry_delay_default]
    /\ p_pc = "idle"
    /\ attempt = 0
    /\ outcomes = <<>>
    /\ last_fault = NoFault
    /\ slept = <<>>
    /\ p_result = [success |-> FALSE, complete |-> FALSE]

\* Lines 64-72
ValidateInputs ==
    /\ p_pc = "start"
    /\ IF _validate_inputs(p_input)
       THEN p_pc' = "attempting"
       ELSE p_pc' = "failed"
    /\ UNCHANGED <<p_input, p_cfg, attempt, outcomes, last_fault, slept, p_result>>
    /\ UNCHANGED space_vars
    /\ UNCHANGED <<pipe_vars, chunk_vars, calls>>

\* Lines 75-114: one iteration of the loop up to the end of its except clauses
Attempt(fault) ==
    /\ p_pc = "attempting"
    /\ LET o == AttemptOutcome(p_input.defect, fault)
       IN  /\ outcomes' = Append(outcomes, o)
           /\ last_fault' = IF Raised(p_input.defect, fault) THEN fault ELSE NoFault
           /\ IF o = "success"
              THEN /\ p_pc' = "done"
                   /\ p_result' = [success |-> TRUE,
                                   complete |-> ~PartSwallowed(p_input.defect, fault)]
              ELSE /\ p_result' = p_result
                   /\ IF o = "ResourceExhaustion" \/ GivesUp(attempt, p_cfg.max_retries)
                      THEN p_pc' = "failed"
                      ELSE p_pc' = "backoff"
    /\ UNCHANGED <<p_input, p_cfg, attempt, slept>>
    /\ UNCHANGED space_vars
    /\ UNCHANGED <<pipe_vars, chunk_vars, calls>>

\* Lines 116-118 and the loop header
Backoff ==
    /\ p_pc = "backoff"
    /\ attempt < p_cfg.max_retries
    /\ slept' = Append(slept, BackoffDelay(p_cfg.retry_delay, attempt))
    /\ attempt' = attempt + 1
    /\ p_pc' = "attempting"
    /\ UNCHANGED <<p_input, p_cfg, outcomes, last_fault, p_result>>
    /\ UNCHANGED space_vars
    /\ UNCHANGED <<pipe_vars, chunk_vars, calls>>

(***************************************************************************)
(* The tools as actions on one file_id                                     *)
(***************************************************************************)
\* extract_ooxml_text._invoke (lines 80-121): parse, renumber, optimize, store
ExtractOoxmlText ==
    /\ pl_pc = "loaded"
    /\ storage' = _store_extraction_data(
                       storage, AssignSequenceIds(ParsedSegments(original_file)))
    /\ pl_pc' = "extracted"
    /\ UNCHANGED <<original_file, handoff, translated_texts, translations, rebuilt, lib_segments>>
    /\ UNCHANGED <<space_vars, parse_vars, chunk_vars, calls>>

\* get_translation_texts._invoke (lines 63-126)
GetTranslationTextsTool ==
    /\ pl_pc = "extracted"
    /\ IF _get_text_segments(storage) = <<>>
       THEN /\ pl_pc' = "no_segments"
            /\ UNCHANGED <<storage, handoff>>
       ELSE LET r == GetTranslationTexts(_get_text_segments(storage))
            IN  /\ storage' = [storage EXCEPT !.segment_mapping = r.segment_mapping]
                /\ handoff' = r.xml_segments
                /\ pl_pc' = "handed"
    /\ UNCHANGED <<original_file, translated_texts, translations, rebuilt, lib_segments>>
    /\ UNCHANGED <<space_vars, parse_vars, chunk_vars, calls>>

\* update_translations._invoke (lines 52-180): parse the hand-back, update the
\* sorted list, store it.  An empty translated_texts is refused before anything
\* is read (lines 46-49).
UpdateTranslationsTool(hand_back) ==
    /\ pl_pc = "handed"
    /\ hand_back # <<>>
    /\ translated_texts' = hand_back
    /\ translations' = _parse_xml_translations(hand_back)
    /\ storage' = [storage EXCEPT !.texts =
            UpdateTranslations(
                _restore_optimized_data(_get_text_segments(storage),
                                        storage.namespace_registry),
                storage.segment_mapping, translations')]
    /\ pl_pc' = "updated"
    /\ UNCHANGED <<original_file, handoff, rebuilt, lib_segments>>
    /\ UNCHANGED <<space_vars, parse_vars, chunk_vars, calls>>

\* update_translations called once more for the file_id, with the translations
\* of another part of the hand-off.
UpdateAgain(hand_back) ==
    /\ pl_pc = "updated"
    /\ hand_back # <<>>
    /\ translated_texts' = hand_back
    /\ translations' = _parse_xml_translations(hand_back)
    /\ storage' = [storage EXCEPT !.texts =
            UpdateTranslations(
                _restore_optimized_data(_get_text_segments(storage),
                                        storage.namespace_registry),
                storage.segment_mapping, translations')]
    /\ pl_pc' = "updated"
    /\ UNCHANGED <<original_file, handoff, rebuilt, lib_segments>>
    /\ UNCHANGED <<space_vars, parse_vars, chunk_vars, calls>>

\* extract_ooxml_text._invoke called again under the file_id, for the same or
\* another document: what the earlier calls stored is still there.
ExtractAgain(document) ==
    /\ pl_pc \in {"updated", "rebuilt", "no_translations"}
    /\ original_file' = document
    /\ storage' = _store_extraction_data(
                       storage, AssignSequenceIds(ParsedSegments(document)))
    /\ handoff' = <<>>
    /\ translated_texts' = <<>>
    /\ translations' = EmptyMap
    /\ rebuilt' = NothingRebuilt
    /\ pl_pc' = "extracted"
    /\ UNCHANGED lib_segments
    /\ UNCHANGED <<space_vars, parse_vars, chunk_vars, calls>>

\* rebuild_ooxml_document._get_text_segments (lines 205-242).  A list stored by
\* update_translations has its namespace maps restored; in a list that still
\* has namespace_ref the tool's own _restore_optimized_data (lines 359-398)
\* looks for the registry under the first part of a text_id, which is not the
\* file_id, finds none and returns the list unchanged.
LoadedForRebuild(file_store) == _get_text_segments(file_store)

\* rebuild_ooxml_document._invoke (lines 63-108): refuses when no segment has a
\* non-blank translated_text, else calls rebuild_document on the loaded list.
RebuildOoxmlDocument ==
    /\ pl_pc = "updated"
    /\ LET text_segments == LoadedForRebuild(storage)
       IN  IF \A k \in 1..Len(text_segments) :
                 Strip(GetTranslated(text_segments[k].translated_text)) = <<>>
           THEN /\ pl_pc' = "no_translations"
                /\ UNCHANGED rebuilt
           ELSE /\ rebuilt' = rebuild_document(original_file, text_segments)
                /\ pl_pc' = IF rebuilt'.raised THEN "rebuild_failed" ELSE "rebuilt"
    /\ UNCHANGED <<original_file, storage, handoff, translated_texts, translations, lib_segments>>
    /\ UNCHANGED <<space_vars, parse_vars, chunk_vars, calls>>

\* OOXMLRebuilder.rebuild_document called with a segment list of the caller's
RebuildDocument ==
    /\ pl_pc = "library"
    /\ rebuilt' = rebuild_document(original_file, lib_segments)
    /\ pl_pc' = IF rebuilt'.raised THEN "library_failed" ELSE "library_rebuilt"
    /\ UNCHANGED <<original_file, storage, handoff, translated_texts, translations, lib_segments>>
    /\ UNCHANGED <<space_vars, parse_vars, chunk_vars, calls>>

(***************************************************************************)
(* The documents the specifications start from: small well-formed archives *)
(* with two text slots each                                                *)
(***************************************************************************)
MaxRawLen == 2

\* Node texts: '' (an empty element), blanks, words, a tab-indented word, a number.
RawTexts == SeqsUpTo({"a", " "}, MaxRawLen) \cup {<<"TAB", "a">>, <<"1">>}

\* The texts of the second text slot of a document: empty, blank, a word, a number.
SecondTexts == {<<>>, <<" ">>, <<"a">>, <<"1">>}

\* An element as a producer writes it: xml:space="preserve" where blanks need it.
El(parent, ns, tag, text) ==
    [parent |-> parent, ns |-> ns, tag |-> tag, attr_t |-> "", text |-> text,
     preserve |-> _requires_xml_space_preserve(text)]

\* A worksheet cell <c t="...">
Cell(parent, ns, t) ==
    [parent |-> parent, ns |-> ns, tag |-> "c", attr_t |-> t, text |-> <<>>,
     preserve |-> FALSE]

\* word/document.xml with one paragraph of two runs
TwoRuns(t1, t2) ==
    << El(0, "W", "document", <<>>), El(1, "W", "body", <<>>), El(2, "W", "p", <<>>),
       El(3, "W", "r", <<>>), El(4, "W", "t", t1),
       El(3, "W", "r", <<>>), El(6, "W", "t", t2) >>

\* word/document.xml with two paragraphs of one run
TwoParagraphs(t1, t2) ==
    << El(0, "W", "document", <<>>), El(1, "W", "body", <<>>),
       El(2, "W", "p", <<>>), El(3, "W", "r", <<>>), El(4, "W", "t", t1),
       El(2, "W", "p", <<>>), El(6, "W", "r", <<>>), El(7, "W", "t", t2) >>

\* a part with one paragraph of one run under the given root element
OneRun(root, t1) ==
    << El(0, "W", root, <<>>), El(1, "W", "p", <<>>), El(2, "W", "r", <<>>),
       El(3, "W", "t", t1) >>

\* a run, then a run whose text sits in a text box below an element of a
\* namespace the parser has no prefix for (mc:AlternateContent)
TextBoxForeign(t1, t2) ==
    << El(0, "W", "document", <<>>), El(1, "W", "body", <<>>), El(2, "W", "p", <<>>),
       El(3, "W", "r", <<>>), El(4, "W", "t", t1),
       El(3, "W", "r", <<>>), El(6, "MC", "AlternateContent", <<>>),
       El(7, "W", "txbxContent", <<>>), El(8, "W", "t", t2) >>

\* the same below wp:anchor, a namespace the parser knows as 'wp'
TextBoxAnchor(t1, t2) ==
    << El(0, "W", "document", <<>>), El(1, "W", "body", <<>>), El(2, "W", "p", <<>>),
       El(3, "W", "r", <<>>), El(4, "W", "t", t1),
       El(3, "W", "r", <<>>), El(6, "WP", "anchor", <<>>),
       El(7, "W", "txbxContent", <<>>), El(8, "W", "t", t2) >>

\* xl/sharedStrings.xml with two plain items
TwoItems(ns, t1, t2) ==
    << El(0, ns, "sst", <<>>), El(1, ns, "si", <<>>), El(2, ns, "t", t1),
       El(1, ns, "si", <<>>), El(4, ns, "t", t2) >>

\* xl/sharedStrings.xml with one rich-text item of two runs
RichItem(t1, t2) ==
    << El(0, "X", "sst", <<>>), El(1, "X", "si", <<>>),
       El(2, "X", "r", <<>>), El(3, "X", "t", t1),
       El(2, "X", "r", <<>>), El(5, "X", "t", t2) >>

\* xl/sharedStrings.xml with one plain item
OneItem(t1) == << El(0, "X", "sst", <<>>), El(1, "X", "si", <<>>), El(2, "X", "t", t1) >>

\* a worksheet with one inline-string cell
InlineSheet(t2) ==
    << El(0, "X", "worksheet", <<>>), El(1, "X", "sheetData", <<>>),
       El(2, "X", "row", <<>>), Cell(3, "X", "inlineStr"),
       El(4, "X", "is", <<>>), El(5, "X", "t", t2) >>

\* a slide with one shape; its paragraph holds `runs`
Slide(runs) ==
    << El(0, "P", "sld", <<>>), El(1, "P", "sp", <<>>), El(2, "P", "txBody", <<>>),
       El(3, "A", "p", <<>>) >> \o runs

SlideRun(t1) == << El(4, "A", "r", <<>>), El(5, "A", "t", t1) >>

SlideRun2(t2) == << El(4, "A", "r", <<>>), El(7, "A", "t", t2) >>

\* An archive entry: its name, its content, and what is wrong with the stored
\* bytes: "none", "malformed" (read() succeeds, the bytes are not well-formed
\* XML; nodes then stands for the bytes only) or "crc" (read() raises BadZipFile).
Entry(path, nodes) == [path |-> path, nodes |-> nodes, defect |-> "none"]

\* A part no segment comes from: styles, workbook, presentation.
Unrelated(ns, root) == << El(0, ns, root, <<>>), El(1, ns, "style", <<"a">>) >>

\* The archives built from two node texts.
Archives(t1, t2) ==
    { [ftype |-> "docx", parts |-> <<Entry("word/document.xml", TwoRuns(t1, t2))>>],
      [ftype |-> "docx", parts |-> <<Entry("word/styles.xml", Unrelated("W", "styles")),
                                     Entry("word/document.xml", TwoParagraphs(t1, t2))>>],
      [ftype |-> "docx", parts |-> <<Entry("word/header1.xml", OneRun("hdr", t2)),
                                     Entry("word/document.xml", OneRun("document", t1))>>],
      [ftype |-> "docx", parts |-> <<Entry("word/document.xml", TextBoxForeign(t1, t2))>>],
      [ftype |-> "docx", parts |-> <<Entry("word/document.xml", TextBoxAnchor(t1, t2))>>],
      [ftype |-> "xlsx", parts |-> <<Entry("xl/sharedStrings.xml", TwoItems("X", t1, t2)),
                                     Entry("xl/workbook.xml", Unrelated("X", "workbook"))>>],
      [ftype |-> "xlsx", parts |-> <<Entry("xl/sharedStrings.xml", TwoItems("", t1, t2))>>],
      [ftype |-> "xlsx", parts |-> <<Entry("xl/sharedStrings.xml", RichItem(t1, t2))>>],
      [ftype |-> "xlsx", parts |-> <<Entry("xl/sharedStrings.xml", OneItem(t1)),
                                     Entry("xl/worksheets/sheet1.xml", InlineSheet(t2))>>],
      [ftype |-> "pptx", parts |-> <<Entry("ppt/presentation.xml",
                                           Unrelated("P", "presentation")),
                                     Entry("ppt/slides/slide1.xml",
                                           Slide(SlideRun(t1) \o SlideRun2(t2)))>>],
      [ftype |-> "pptx", parts |-> <<Entry("ppt/slides/slide1.xml", Slide(SlideRun(t1))),
                                     Entry("ppt/slides/slide2.xml", Slide(SlideRun(t2)))>>] }

(***************************************************************************)
(* Specification Spec: extract, hand off, update, rebuild                  *)
(***************************************************************************)
\* What the translator may send back for an id besides the text it was given.
TransTexts == {<<"b">>, <<" ">>}

\* The hand-backs of the translator: the <segment> elements of any subset of
\* the ids handed off, each with the text it was given or with one of TransTexts.
TranslatedTexts ==
    UNION {{SelectSeq([n \in 1..Len(handoff) |->
                          IF n \in D THEN Seg(handoff[n].id, given[n]) ELSE Txt(<<>>)],
                      LAMBDA item : item.kind = "segment") :
               given \in {g \in [D -> TransTexts \cup {handoff[n].text : n \in 1..Len(handoff)}] :
                             \A n \in D : g[n] \in TransTexts \cup {handoff[n].text}}} :
           D \in SUBSET (1..Len(handoff))}

\* The dicts update_translations parses from them.
TranslationDicts == {_parse_xml_translations(hand_back) : hand_back \in TranslatedTexts}

Init ==
    /\ ChunkIdle
    /\ CallsIdle
    /\ SpaceIdle
    /\ ParseIdle
    /\ \E t1 \in RawTexts, t2 \in SecondTexts : original_file \in Archives(t1, t2)
    /\ storage = EmptyStorage
    /\ handoff = <<>>
    /\ translated_texts = <<>>
    /\ translations = EmptyMap
    /\ rebuilt = NothingRebuilt
    /\ lib_segments = <<>>
    /\ pl_pc = "loaded"

Next ==
    \/ ExtractOoxmlText
    \/ GetTranslationTextsTool
    \/ \E hand_back \in TranslatedTexts : UpdateTranslationsTool(hand_back)
    \/ RebuildOoxmlDocument

Spec == Init /\ [][Next]_vars

(***************************************************************************)
(* Specification SpecLib: rebuild_document called with a caller's list, in *)
(* which translated_text may be None or missing                            *)
(***************************************************************************)
\* What a caller may leave in translated_text.
LibTexts == {None, Absent, <<>>, <<"b">>}

\* The node texts of the documents handed to rebuild_document.
LibRawTexts == {<<"a">>, <<" ", "a">>}

LibInit ==
    /\ ChunkIdle
    /\ CallsIdle
    /\ SpaceIdle
    /\ ParseIdle
    /\ \E t1 \in LibRawTexts, t2 \in LibRawTexts : original_file \in Archives(t1, t2)
    /\ LET extracted == AssignSequenceIds(ParsedSegments(original_file))
       IN  \E given \in [1..Len(extracted) -> LibTexts] :
              lib_segments = [k \in 1..Len(extracted) |->
                                 [extracted[k] EXCEPT !.translated_text = given[k]]]
    /\ storage = EmptyStorage
    /\ handoff = <<>>
    /\ translated_texts = <<>>
    /\ translations = EmptyMap
    /\ rebuilt = NothingRebuilt
    /\ pl_pc = "library"

LibNext == RebuildDocument

SpecLib == LibInit /\ [][LibNext]_vars

(***************************************************************************)
(* Specification SpecDamaged: rebuild_document handed a copy of the        *)
(* document in which one entry has gone bad since the extraction           *)
(***************************************************************************)
\* One entry does not parse or cannot be read; the caller's list was extracted
\* from the sound document and has a translation or None in each segment.
DamagedInit ==
    /\ ChunkIdle
    /\ CallsIdle
    /\ SpaceIdle
    /\ ParseIdle
    /\ \E t1 \in LibRawTexts, t2 \in LibRawTexts :
          \E good \in Archives(t1, t2) :
             /\ \E k \in 1..Len(good.parts), d \in {"malformed", "crc"} :
                   original_file = [good EXCEPT !.parts[k].defect = d]
             /\ LET extracted == AssignSequenceIds(ParsedSegments(good))
                IN  \E given \in [1..Len(extracted) -> {None, <<"b">>}] :
                       lib_segments = [k \in 1..Len(extracted) |->
                                          [extracted[k] EXCEPT !.translated_text = given[k]]]
    /\ storage = EmptyStorage
    /\ handoff = <<>>
    /\ translated_texts = <<>>
    /\ translations = EmptyMap
    /\ rebuilt = NothingRebuilt
    /\ pl_pc = "library"

DamagedNext == RebuildDocument

SpecDamaged == DamagedInit /\ [][DamagedNext]_vars

(***************************************************************************)
(* Specification SpecHandback: update_translations given what a translator *)
(* may send back for a document that was handed off                        *)
(***************************************************************************)
\* The most <segment> elements in a hand-back, and the highest id in them.
MaxHandBack == 2

\* The texts sent back in a <segment>: a word, a blank, '&lt;' and '&amp;lt;'.
HandBackTexts == {<<"b">>, <<" ">>, <<"&lt;">>, <<"&amp;", "lt;">>}

\* The lists of <segment> elements sent back; an id may come more than once.
SegmentLists ==
    UNION {[1..n -> {Seg(Format03d(id), text) : id \in 1..MaxHandBack,
                                                text \in HandBackTexts}] :
               n \in 0..MaxHandBack}

\* What a translator puts around the list: nothing, a root element, words
\* before and after, words after a root element, a think block (closed, with a
\* segment of its own in it, or left open), words with a bare '&'.
Decorated(list) ==
    { list,
      <<Tag("open", "root")>> \o list \o <<Tag("close", "root")>>,
      <<Txt(<<"x">>)>> \o list \o <<Txt(<<"y">>)>>,
      <<Tag("open", "root")>> \o list \o <<Tag("close", "root"), Txt(<<"y">>)>>,
      <<Tag("open", "think"), Txt(<<"x">>), Seg(Format03d(1), <<"z">>),
        Tag("close", "think")>> \o list,
      <<Tag("open", "think"), Txt(<<"x">>)>> \o list,
      <<Txt(<<"Q", "&", "A">>)>> \o list }

HandBacks == UNION {Decorated(list) : list \in SegmentLists}

\* The texts of the first run of the document handed off: a word, '&', '<', a
\* quote, and the four characters '&lt;'.
HandedTexts == {<<"a">>, <<"&">>, <<"<">>, <<"'">>, <<"&", "lt;">>}

\* A two-run document after extract_ooxml_text and get_translation_texts.
HandbackInit ==
    /\ ChunkIdle
    /\ CallsIdle
    /\ SpaceIdle
    /\ ParseIdle
    /\ \E t1 \in HandedTexts :
          original_file = [ftype |-> "docx",
                           parts |-> <<Entry("word/document.xml", TwoRuns(t1, <<"c">>))>>]
    /\ LET optimized == _optimize_storage_data(
                            AssignSequenceIds(ParsedSegments(original_file)))
           r == GetTranslationTexts(optimized.segments)
       IN  /\ storage = [EmptyStorage EXCEPT
                            !.texts = optimized.segments,
                            !.namespace_registry = optimized.namespace_registry,
                            !.segment_mapping = r.segment_mapping]
           /\ handoff = r.xml_segments
    /\ translated_texts = <<>>
    /\ translations = EmptyMap
    /\ rebuilt = NothingRebuilt
    /\ lib_segments = <<>>
    /\ pl_pc = "handed"

\* The translator sends back one of the hand-backs, or what it got with
\* something around it.
HandbackNext ==
    \E hand_back \in HandBacks \cup Decorated(handoff) : UpdateTranslationsTool(hand_back)

SpecHandback == HandbackInit /\ [][HandbackNext]_vars

(***************************************************************************)
(* Specification SpecParse: parse_file on drawn inputs and configurations  *)
(***************************************************************************)
MaxRetriesCfg == 3

MaxDelayCfg == 2

ParseInit ==
    /\ ChunkIdle
    /\ CallsIdle
    /\ SpaceIdle
    /\ PipeIdle
    /\ p_input \in [validity : Validities, defect : Defects]
    /\ p_cfg \in [max_retries : 0..MaxRetriesCfg, retry_delay : 1..MaxDelayCfg]
    /\ p_pc = "start"
    /\ attempt = 0
    /\ outcomes = <<>>
    /\ last_fault = NoFault
    /\ slept = <<>>
    /\ p_result = [success |-> FALSE, complete |-> FALSE]

ParseNext ==
    \/ ValidateInputs
    \/ \E fault \in Faults : Attempt(fault)
    \/ Backoff

SpecParse == ParseInit /\ [][ParseNext]_vars

(***************************************************************************)
(* Specification SpecSpace: the space pass on drawn segment lists          *)
(***************************************************************************)
MaxSpaceLen == 2

SpaceChars == {"a", "1", " ", ".", "(", "-"}

\* The texts a caller may leave in translated_text, None and a missing key included.
SpaceTexts == SeqsUpTo(SpaceChars, MaxSpaceLen) \cup {None, Absent}

SpaceInit ==
    /\ ChunkIdle
    /\ CallsIdle
    /\ ParseIdle
    /\ PipeIdle
    /\ sp_pc = "input"
    /\ \E t1 \in SpaceTexts, t2 \in SpaceTexts :
          input_segs = << [sequence_id |-> 0, translated_text |-> t1],
                          [sequence_id |-> 1, translated_text |-> t2] >>
    /\ segs = input_segs

Preprocess ==
    /\ sp_pc = "input"
    /\ segs' = _preprocess_segments_with_spaces(segs)
    /\ sp_pc' = "preprocessed"
    /\ UNCHANGED input_segs
    /\ UNCHANGED parse_vars
    /\ UNCHANGED <<pipe_vars, chunk_vars, calls>>

SpaceNext == Preprocess

SpecSpace == SpaceInit /\ [][SpaceNext]_vars

(***************************************************************************)
(* _create_chunks: the "array" output of get_translation_texts             *)
(*                                                                         *)
(* A chunk is the string '\n'.join(current_chunk), kept as the sequence of *)
(* its items: the <segment> elements with a text item "\n" between them.   *)
(***************************************************************************)
\* len() of one character or character group of a text
CharLen(c) ==
    CASE c = "&amp;" -> 5
      [] c \in {"&lt;", "&gt;"} -> 4
      [] c \in {"&quot;", "&apos;"} -> 6
      [] c = "lt;" -> 3
      [] OTHER -> 1

RECURSIVE TextLen(_)
\* len(text)
TextLen(text) == IF text = <<>> THEN 0 ELSE CharLen(Head(text)) + TextLen(Tail(text))

\* len() of an item: f'<segment id="{segment_id}">{escaped_text}</segment>'
\* (get_translation_texts line 126) or a run of text
ItemLen(item) ==
    IF item.kind = "segment"
    THEN TextLen(<<"<", "s", "e", "g", "m", "e", "n", "t", " ", "i", "d", "=", "\"">>)
         + TextLen(item.id) + TextLen(<<"\"", ">">>) + TextLen(item.text)
         + TextLen(<<"<", "/", "s", "e", "g", "m", "e", "n", "t", ">">>)
    ELSE TextLen(item.text)

RECURSIVE StrLen(_)
\* len() of a string kept as a sequence of items
StrLen(items) == IF items = <<>> THEN 0 ELSE ItemLen(Head(items)) + StrLen(Tail(items))

RECURSIVE JoinLines(_)
\* '\n'.join(current_chunk)
JoinLines(current_chunk) ==
    IF Len(current_chunk) <= 1 THEN current_chunk
    ELSE <<Head(current_chunk), Txt(<<"\n">>)>> \o JoinLines(Tail(current_chunk))

\* The size test alone: the segment count of the chunk is not looked at.
SizeTestOnly(current_chunk, current_chunk_size, segment_size, chunk_size, max_segments_per_chunk) ==
    current_chunk # <<>> /\ current_chunk_size + segment_size + 1 > chunk_size

\* _create_chunks, lines 417-422
should_start_new_chunk(current_chunk, current_chunk_size, segment_size, chunk_size, max_segments_per_chunk) ==
    \/ (current_chunk # <<>> /\ current_chunk_size + segment_size + 1 > chunk_size)
    \/ (current_chunk # <<>> /\ Len(current_chunk) >= max_segments_per_chunk)

RECURSIVE ChunkLoop(_, _, _, _, _, _)
\* _create_chunks, the loop of lines 413-442 over the segments not yet visited,
\* and the last chunk
ChunkLoop(rest, chunk_list, current_chunk, current_chunk_size, chunk_size, max_segments_per_chunk) ==
    IF rest = <<>>
    THEN IF current_chunk # <<>> THEN Append(chunk_list, JoinLines(current_chunk))
                                 ELSE chunk_list
    ELSE LET segment == Head(rest)
             segment_size == StrLen(<<segment>>)
         IN  IF should_start_new_chunk(current_chunk, current_chunk_size, segment_size,
                                       chunk_size, max_segments_per_chunk)
             THEN ChunkLoop(Tail(rest), Append(chunk_list, JoinLines(current_chunk)),
                            <<segment>>, segment_size,
                            chunk_size, max_segments_per_chunk)
             ELSE ChunkLoop(Tail(rest), chunk_list,
                            Append(current_chunk, segment),
                            current_chunk_size + segment_size + 1,
                            chunk_size, max_segments_per_chunk)

\* get_translation_texts._create_chunks (lines 392-452)
_create_chunks(xml_segments, chunk_size, max_segments_per_chunk) ==
    IF xml_segments = <<>> THEN <<>>
    ELSE ChunkLoop(xml_segments, <<>>, <<>>, 0, chunk_size, max_segments_per_chunk)

\* The content texts the chunked hand-offs are made of.
ChunkTexts == {<<"a">>, <<"&">>}

MaxChunkSegments == 3

MaxChunkSize == 100

MaxPerChunk == 3

\* The hand-off of get_translation_texts._invoke (lines 121-126) for a list of
\* content texts, and the two parameters, which _invoke passes on as it got them
\* (lines 37-38, 135).
ChunkInit ==
    /\ CallsIdle
    /\ SpaceIdle
    /\ ParseIdle
    /\ PipeIdle
    /\ \E content_segments \in SeqsUpTo(ChunkTexts, MaxChunkSegments),
          chunk_size \in 0..MaxChunkSize,
          max_segments_per_chunk \in 0..MaxPerChunk :
          chunk_call =
              [xml_segments |->
                   [idx \in 1..Len(content_segments) |->
                       Seg(Format03d(idx), _xml_escape(content_segments[idx]))],
               chunk_size |-> chunk_size,
               max_segments_per_chunk |-> max_segments_per_chunk]
    /\ chunks = <<>>
    /\ ch_pc = "called"

CreateChunks ==
    /\ ch_pc = "called"
    /\ chunks' = _create_chunks(chunk_call.xml_segments, chunk_call.chunk_size,
                                chunk_call.max_segments_per_chunk)
    /\ ch_pc' = "returned"
    /\ UNCHANGED chunk_call
    /\ UNCHANGED <<space_vars, parse_vars, pipe_vars, calls>>

ChunkNext == CreateChunks

SpecChunks == ChunkInit /\ [][ChunkNext]_vars

(***************************************************************************)
(* The storage of a file_id over several calls of the tools                *)
(***************************************************************************)
\* word/document.xml with one paragraph of n runs of the same text
ManyRuns(n, t) ==
    << El(0, "W", "document", <<>>), El(1, "W", "body", <<>>), El(2, "W", "p", <<>>) >>
    \o [j \in 1..(2 * n) |-> IF j % 2 = 1 THEN El(3, "W", "r", <<>>)
                                          ELSE El(j + 2, "W", "t", t)]

\* The documents given to extract_ooxml_text under the file_id: small ones, and
\* one with one segment more than is stored without batches.
StoreDocuments ==
    { [ftype |-> "docx", parts |-> <<Entry("word/document.xml", TwoRuns(<<"a">>, <<"c">>))>>],
      [ftype |-> "docx", parts |-> <<Entry("word/document.xml", TwoRuns(<<" ">>, <<"c">>))>>],
      [ftype |-> "pptx", parts |-> <<Entry("ppt/slides/slide1.xml",
                                           Slide(SlideRun(<<"a">>)))>>],
      [ftype |-> "xlsx", parts |-> <<Entry("xl/sharedStrings.xml",
                                           TwoItems("X", <<"a">>, <<"c">>))>>],
      [ftype |-> "docx", parts |-> <<Entry("word/document.xml",
                                           ManyRuns(batching_above + 1, <<"a">>))>>] }

\* The most ids one call of update_translations brings translations for.
MaxStoreIds == 2

\* The hand-backs of the calls: the segments of a part of the hand-off, each
\* with the text "b".
PartialHandBacks ==
    LET n == IF Len(handoff) < MaxStoreIds THEN Len(handoff) ELSE MaxStoreIds
    IN  { [k \in 1..Len(part) |-> Seg(handoff[part[k]].id, <<"b">>)] :
             part \in {InOrder(S) : S \in (SUBSET (1..n)) \ {{}}} }

StoreInit ==
    /\ ChunkIdle
    /\ CallsIdle
    /\ SpaceIdle
    /\ ParseIdle
    /\ original_file \in StoreDocuments
    /\ storage = EmptyStorage
    /\ handoff = <<>>
    /\ translated_texts = <<>>
    /\ translations = EmptyMap
    /\ rebuilt = NothingRebuilt
    /\ lib_segments = <<>>
    /\ pl_pc = "loaded"

StoreNext ==
    \/ ExtractOoxmlText
    \/ GetTranslationTextsTool
    \/ \E hand_back \in PartialHandBacks : UpdateTranslationsTool(hand_back)
    \/ \E hand_back \in PartialHandBacks : UpdateAgain(hand_back)
    \/ RebuildOoxmlDocument
    \/ \E document \in StoreDocuments : ExtractAgain(document)

SpecStore == StoreInit /\ [][StoreNext]_vars

(***************************************************************************)
(* Two invocations of update_translations at the same time                 *)
(***************************************************************************)
\* The texts the two chunks come back with.
ChunkTranslations == {<<"b">>, <<"d">>}

\* The hand-off was made of a document of two runs and went out as two chunks
\* of one segment; update_translations is called once for each chunk.
ConcurrentInit ==
    /\ SpaceIdle
    /\ ParseIdle
    /\ ChunkIdle
    /\ \E t1 \in HandedTexts, t2 \in {<<"c">>, <<" ", "c">>} :
          original_file = [ftype |-> "docx",
                           parts |-> <<Entry("word/document.xml", TwoRuns(t1, t2))>>]
    /\ LET stored == _store_extraction_data(
                         EmptyStorage, AssignSequenceIds(ParsedSegments(original_file)))
           r == GetTranslationTexts(_get_text_segments(stored))
       IN  /\ storage = [stored EXCEPT !.segment_mapping = r.segment_mapping]
           /\ handoff = r.xml_segments
    /\ translated_texts = <<>>
    /\ translations = EmptyMap
    /\ rebuilt = NothingRebuilt
    /\ lib_segments = <<>>
    /\ pl_pc = "handed"
    /\ \E given \in [1..Len(handoff) -> ChunkTranslations] :
          calls = [c \in 1..Len(handoff) |->
                      [pc |-> "called",
                       translated_texts |-> <<Seg(handoff[c].id, given[c])>>,
                       text_segments |-> <<>>,
                       segment_mapping |-> EmptyMap]]

\* update_translations._invoke, lines 54-113: the invocation reads the segments
\* and the mapping from storage.
UpdateRead(c) ==
    /\ calls[c].pc = "called"
    /\ calls[c].translated_texts # <<>>
    /\ calls' = [calls EXCEPT
                    ![c].pc = "read",
                    ![c].text_segments =
                        _restore_optimized_data(_get_text_segments(storage),
                                                storage.namespace_registry),
                    ![c].segment_mapping = storage.segment_mapping]
    /\ UNCHANGED <<space_vars, parse_vars, pipe_vars, chunk_vars>>

\* update_translations._invoke, lines 116-177: the invocation updates the list
\* it has read and stores it.
UpdateWrite(c) ==
    /\ calls[c].pc = "read"
    /\ storage' = [storage EXCEPT !.texts =
            UpdateTranslations(calls[c].text_segments, calls[c].segment_mapping,
                               _parse_xml_translations(calls[c].translated_texts))]
    /\ calls' = [calls EXCEPT ![c].pc = "done"]
    /\ pl_pc' = "updated"
    /\ UNCHANGED <<original_file, handoff, translated_texts, translations, rebuilt,
                   lib_segments>>
    /\ UNCHANGED <<space_vars, parse_vars, chunk_vars>>

ConcurrentNext ==
    \/ \E c \in DOMAIN calls : UpdateRead(c)
    \/ \E c \in DOMAIN calls : UpdateWrite(c)

SpecConcurrent == ConcurrentInit /\ [][ConcurrentNext]_vars

(***************************************************************************)
(* Claims on extraction, hand-off, update and rebuild                      *)
(***************************************************************************)
\* The entry of an archive with the given name.
EntryNamed(archive, path) ==
    archive.parts[CHOOSE k \in 1..Len(archive.parts) : archive.parts[k].path = path]

\* The t elements of a part in document order, and those below its n-th si.
TextElements(nodes) == InOrder({j \in 1..Len(nodes) : nodes[j].tag = "t"})

TextElementsOfItem(nodes, n) ==
    LET items == InOrder({j \in 1..Len(nodes) : nodes[j].tag = "si"})
    IN  InOrder({j \in DescendantsOf(nodes, items[n]) : nodes[j].tag = "t"})

\* The element a segment was extracted from, as its text_id names it: the
\* (idx+1)-th text element of the part, or the (t_idx+1)-th text element of the
\* (si_idx+1)-th shared-string item.
OriginNode(nodes, text_id) ==
    IF text_id[1] = "shared_string"
    THEN TextElementsOfItem(nodes, text_id[2] + 1)[text_id[3] + 1]
    ELSE TextElements(nodes)[text_id[2] + 1]

\* The element of the archive that the segment came from.
OriginElement(archive, segment) ==
    LET nodes == EntryNamed(archive, segment.xml_location.xml_file_path).nodes
    IN  nodes[OriginNode(nodes, segment.text_id)]

\* The stored segments with the namespace bindings recorded for them.
StoredSegments == _restore_optimized_data(storage.texts, storage.namespace_registry)

Extracted == pl_pc \in {"extracted", "handed", "updated", "rebuilt", "no_translations"}

\* The translator sent every text back as it got it.
IdentityTranslation == translated_texts = handoff

\* C1: round trip.  When every segment handed off comes back with its own
\* original text, every segment's node holds in the rebuilt document the text it
\* held in the original.
C1_RoundTrip ==
    (pl_pc = "rebuilt" /\ IdentityTranslation)
    => \A k \in 1..Len(storage.texts) :
          OriginElement(rebuilt.archive, storage.texts[k]).text
              = OriginElement(original_file, storage.texts[k]).text

\* C2: after extraction the stored segments carry the sequence_id values
\* 0, 1, ..., n-1 in the order in which the parser traversed the document, for
\* documents of one part and of several.
C2_SequenceIds ==
    Extracted
    => /\ \A k \in 1..Len(storage.texts) : storage.texts[k].sequence_id = k - 1
       /\ Len(storage.texts) = Len(ParsedSegments(original_file))
       /\ \A k \in 1..Len(storage.texts) :
             storage.texts[k].text_id = ParsedSegments(original_file)[k].text_id

\* C2 witness: a document with a header part and a body part was extracted and
\* the body's segment, numbered 0 by the parser like the header's, is stored
\* first with id 0 and the header's second with id 1.
C2_Witness ==
    /\ pl_pc = "extracted"
    /\ Len(original_file.parts) = 2
    /\ original_file.ftype = "docx"
    /\ Len(storage.texts) = 2
    /\ storage.texts[1].text_id = <<"word/document.xml", 0>>
    /\ storage.texts[2].text_id = <<"word/header1.xml", 0>>
    /\ storage.texts[2].sequence_id = 1

\* C3: every stored locator, evaluated with the segment's namespace bindings on
\* the original entry, selects exactly one element, the one the segment was
\* extracted from.
C3_LocatorResolves ==
    Extracted
    => \A k \in 1..Len(StoredSegments) :
          LET segment == StoredSegments[k]
              nodes == EntryNamed(original_file, segment.xml_location.xml_file_path).nodes
          IN  XPath(nodes, segment.xml_location.element_xpath,
                    segment.xml_location.namespace_map)
                  = <<OriginNode(nodes, segment.text_id)>>

\* C4: a pure-space segment gets no id and no <segment> element in the
\* hand-off, and after update and rebuild its node holds its original raw text.
C4_PureSpaceKept ==
    /\ pl_pc \in {"handed", "updated", "rebuilt", "no_translations"}
       => /\ \A i \in DOMAIN storage.segment_mapping :
                ~storage.texts[i + 1].space_info.is_pure_space
          /\ Len(handoff) = Cardinality(DOMAIN storage.segment_mapping)
          /\ Len(handoff) = Cardinality({k \in 1..Len(storage.texts) :
                                ~storage.texts[k].space_info.is_pure_space})
    /\ pl_pc = "rebuilt"
       => \A k \in 1..Len(storage.texts) :
             storage.texts[k].space_info.is_pure_space
             => OriginElement(rebuilt.archive, storage.texts[k]).text
                    = OriginElement(original_file, storage.texts[k]).text

\* Whether the segment's locator selects an element of the original entry.
Resolves(segment) ==
    XPath(EntryNamed(original_file, segment.xml_location.xml_file_path).nodes,
          segment.xml_location.element_xpath,
          segment.xml_location.namespace_map) # <<>>

\* C5: in a word-processing document rebuilt from a caller's list, a segment
\* whose translated_text is None or missing leaves its node as it was and is not
\* counted; a segment whose translated_text is '' and whose locator resolves has
\* its node's text set to '' and is counted once.
C5_SkipOrBlank ==
    (pl_pc = "library_rebuilt" /\ original_file.ftype = "docx")
    => /\ \A k \in 1..Len(lib_segments) :
             /\ lib_segments[k].translated_text \in {None, Absent}
                => OriginElement(rebuilt.archive, lib_segments[k])
                       = OriginElement(original_file, lib_segments[k])
             /\ (lib_segments[k].translated_text = <<>> /\ Resolves(lib_segments[k]))
                => OriginElement(rebuilt.archive, lib_segments[k]).text = <<>>
       /\ rebuilt.replaced_count =
             Cardinality({k \in 1..Len(lib_segments) :
                             /\ lib_segments[k].translated_text \notin {None, Absent}
                             /\ Resolves(lib_segments[k])})

(***************************************************************************)
(* Claims on parse_file                                                    *)
(***************************************************************************)
ParseEnded == p_pc \in {"done", "failed"}

\* The delays retry_delay * 1, ..., retry_delay * n
Delays(n) == [k \in 1..n |-> p_cfg.retry_delay * k]

\* No exception other than BadZipFile ended an attempt made so far.
OnlyBadZip == \A i \in 1..Len(outcomes) : outcomes[i] = "BadZipFile"

\* C8 as stated: an input with a corrupted zip signature or structure fails
\* after exactly max_retries + 1 attempts, with the delays retry_delay * k between
\* them and none after the last.
C8_Original ==
    (/\ ParseEnded
     /\ OnlyBadZip
     /\ \/ p_input.validity = "bad_signature"
        \/ p_input.validity = "ok" /\ p_input.defect = "bad_zip")
    => /\ p_pc = "failed"
       /\ Len(outcomes) = p_cfg.max_retries + 1
       /\ slept = Delays(p_cfg.max_retries)

\* C8 amended: an input that passes _validate_inputs and whose zip structure is
\* corrupted (every attempt ends in BadZipFile) fails after exactly
\* max_retries + 1 attempts, having waited retry_delay * k between attempt k and
\* attempt k + 1 and not after the last; no input ever gets more than
\* max_retries + 1 attempts; an input whose signature is not 'PK' is rejected by
\* _validate_inputs without any attempt or wait.
C8_RetryOnCorruptZip ==
    /\ Len(outcomes) <= p_cfg.max_retries + 1
    /\ (/\ ParseEnded
        /\ OnlyBadZip
        /\ p_input.validity = "ok"
        /\ p_input.defect = "bad_zip")
       => /\ p_pc = "failed"
          /\ Len(outcomes) = p_cfg.max_retries + 1
          /\ slept = Delays(p_cfg.max_retries)
    /\ (ParseEnded /\ p_input.validity = "bad_signature")
       => /\ p_pc = "failed"
          /\ outcomes = <<>>
          /\ slept = <<>>

\* C8 witness: a corrupted archive has used up three retries.
C8_Witness ==
    /\ p_pc = "failed"
    /\ p_input = [validity |-> "ok", defect |-> "bad_zip"]
    /\ p_cfg = [max_retries |-> 3, retry_delay |-> 2]
    /\ outcomes = <<"BadZipFile", "BadZipFile", "BadZipFile", "BadZipFile">>
    /\ slept = <<2, 4, 6>>

\* C9: a missing required part or a ZIP-bomb-shaped archive fails on the first
\* attempt: that attempt ends parse_file in failure, no backoff and no second
\* attempt follow.
C9_NoRetryOnStructure ==
    (/\ p_input.validity = "ok"
     /\ p_input.defect \in {"missing_required", "too_many_files", "uncompressed_too_large"}
     /\ last_fault = NoFault
     /\ Len(outcomes) >= 1)
    => /\ p_pc = "failed"
       /\ Len(outcomes) = 1
       /\ slept = <<>>

\* C10: when a MemoryError or OverflowError was raised in the latest attempt,
\* parse_file has ended in failure: it is not backing off, not in a further
\* attempt, and has not returned success.
C10_ResourceFatal ==
    last_fault.exc \in {"MemoryError", "OverflowError"} => p_pc = "failed"

(***************************************************************************)
(* Claims on the space pass                                                *)
(***************************************************************************)
\* The trimmed translated text of a segment ('' for None or a missing key).
Trimmed(t) == IF t = None \/ t = Absent THEN <<>> ELSE Strip(t)

ClosingChars == {".", "'"}

OpeningChars == {"(", "'"}

\* The boundary rule of the claim, on a = last character of A's trimmed text and
\* b = first character of B's trimmed text.
BoundaryRule(A, B) ==
    LET ta == Trimmed(A)
        tb == Trimmed(B)
    IN  /\ ta # <<>>
        /\ tb # <<>>
        /\ LET a == ta[Len(ta)]
               b == tb[1]
           IN  \/ /\ a \in Letters \cup Digits
                  /\ b \in Letters \cup Digits
                  /\ ~(a \in Digits /\ b \in Digits)
               \/ a \in ClosingChars /\ b \in Letters \cup Digits
               \/ a \in Letters \cup Digits /\ b \in OpeningChars

\* One space was appended to the first segment's text by the pass.
SpaceAppended ==
    /\ input_segs[1].translated_text \notin {None, Absent}
    /\ segs[1].translated_text = input_segs[1].translated_text \o <<" ">>

\* The first segment's text was left as it was.
TextKept == segs[1].translated_text = input_segs[1].translated_text

\* C6 as stated: one space is appended to A.translated_text exactly when the
\* boundary rule holds for the pair (A, B); otherwise A is left unchanged.
C6_Original ==
    sp_pc = "preprocessed" =>
        IF BoundaryRule(input_segs[1].translated_text, input_segs[2].translated_text)
        THEN SpaceAppended
        ELSE TextKept

\* C6 amended: one space is appended to A.translated_text exactly when the
\* boundary rule holds for (A, B) and A.translated_text does not already end with
\* a space; in every other case A.translated_text is left unchanged.
C6_SpaceRule ==
    sp_pc = "preprocessed" =>
        IF /\ BoundaryRule(input_segs[1].translated_text, input_segs[2].translated_text)
           /\ ~EndsWithSpace(input_segs[1].translated_text)
        THEN SpaceAppended
        ELSE TextKept

\* C6 witness: 'a' followed by 'a' got its space, and the pair '1','1' did not.
C6_Witness ==
    /\ sp_pc = "preprocessed"
    /\ input_segs[1].translated_text = <<"a">>
    /\ input_segs[2].translated_text = <<"a">>
    /\ segs[1].translated_text = <<"a", " ">>

LocatedNodes(segment) ==
    LET loc == segment.xml_location
        nodes == EntryNamed(original_file, loc.xml_file_path).nodes
        prefix == IF "x" \in DOMAIN loc.namespace_map THEN "x"
                  ELSE IF "default" \in DOMAIN loc.namespace_map THEN "default" ELSE ""
        items == XPath(nodes, <<[axis |-> "desc", prefix |-> prefix, name |-> "si",
                                 pos |-> loc.shared_string_index + 1]>>,
                       loc.namespace_map)
    IN  IF original_file.ftype = "xlsx" /\ loc.xml_file_path = "xl/sharedStrings.xml"
        THEN IF items = <<>> THEN <<>>
             ELSE InOrder({j \in DescendantsOf(nodes, items[1]) :
                              NameTest(nodes[j], AnyNamed(prefix, "t")[1],
                                       loc.namespace_map)})
        ELSE XPath(nodes, loc.element_xpath, loc.namespace_map)

\* The element the rebuild writes the segment's text to; 0 when it writes none.
WrittenNode(segment) ==
    IF GetTranslated(segment.translated_text) = None \/ LocatedNodes(segment) = <<>>
    THEN 0
    ELSE LocatedNodes(segment)[1]

\* The element of its entry the segment was extracted from.
OriginOf(segment) ==
    OriginNode(EntryNamed(original_file, segment.xml_location.xml_file_path).nodes,
               segment.text_id)

\* The segment's text went to the element the segment came from.
WroteOwnNode(segment) == WrittenNode(segment) = OriginOf(segment)

\* C11: after a rebuild a segment whose lookup finds no element leaves the
\* element it came from as it was; every segment whose lookup finds an element
\* has its text in the element it came from; and replaced_count is the number of
\* segments whose own element was overwritten.
C11_FailureIsolated ==
    pl_pc = "rebuilt"
    => LET final == rebuilt.text_segments
       IN  /\ \A k \in 1..Len(final) :
                 IF WrittenNode(final[k]) = 0
                 THEN OriginElement(rebuilt.archive, final[k])
                          = OriginElement(original_file, final[k])
                 ELSE OriginElement(rebuilt.archive, final[k]).text
                          = final[k].translated_text
           /\ rebuilt.replaced_count
                 = Cardinality({k \in 1..Len(final) : WroteOwnNode(final[k])})

\* The entries of the original that no segment of the list names.
NoSegmentsFor(k) ==
    \A n \in 1..Len(lib_segments) :
        lib_segments[n].xml_location.xml_file_path # original_file.parts[k].path

\* C12: the archive rebuild_document returns has the entry names of the original
\* in the original order, and every entry that no segment names is the original
\* entry unchanged.
C12_EntriesKept ==
    pl_pc = "library_rebuilt"
    => /\ Len(rebuilt.archive.parts) = Len(original_file.parts)
       /\ \A k \in 1..Len(original_file.parts) :
             /\ rebuilt.archive.parts[k].path = original_file.parts[k].path
             /\ NoSegmentsFor(k) => rebuilt.archive.parts[k] = original_file.parts[k]

\* C12 witness: a rebuilt archive of two entries, one that no segment names and
\* one whose text was replaced.
C12_Witness ==
    /\ pl_pc = "library_rebuilt"
    /\ Len(original_file.parts) = 2
    /\ \E k \in 1..2 : NoSegmentsFor(k)
    /\ \E k \in 1..2 : rebuilt.archive.parts[k] # original_file.parts[k]
    /\ rebuilt.replaced_count > 0

(***************************************************************************)
(* Claims on rebuild_document with an entry gone bad                       *)
(***************************************************************************)
\* C13: rebuild_document either raises and returns nothing, or returns an
\* archive that has every entry of the original, in order; also when an entry
\* with segments does not parse or an entry cannot be read.
C13_AllOrNothing ==
    pl_pc \in {"library_rebuilt", "library_failed"}
    => IF rebuilt.raised
       THEN pl_pc = "library_failed" /\ rebuilt.archive = NoArchive
       ELSE /\ pl_pc = "library_rebuilt"
            /\ Len(rebuilt.archive.parts) = Len(original_file.parts)
            /\ \A k \in 1..Len(original_file.parts) :
                  rebuilt.archive.parts[k].path = original_file.parts[k].path

\* C13 witness: of two entries with segments the first does not parse; the
\* archive returned has both, the first as it was and the second with its text
\* replaced.
C13_Witness ==
    /\ pl_pc = "library_rebuilt"
    /\ Len(original_file.parts) = 2
    /\ original_file.parts[1].defect = "malformed"
    /\ \A k \in 1..2 : ~NoSegmentsFor(k)
    /\ \A n \in 1..Len(lib_segments) : lib_segments[n].translated_text # None
    /\ Len(rebuilt.archive.parts) = 2
    /\ rebuilt.archive.parts[1] = original_file.parts[1]
    /\ rebuilt.archive.parts[2] # original_file.parts[2]

(***************************************************************************)
(* Claims on the order in which the stored segments arrive                 *)
(***************************************************************************)
\* The orders in which a list can arrive.
Arrivals(l) ==
    {[k \in 1..Len(l) |-> l[f[k]]] :
        f \in {g \in [1..Len(l) -> 1..Len(l)] :
                  \A i, j \in 1..Len(l) : g[i] = g[j] => i = j}}

\* C14: in whatever order the stored list arrives, get_translation_texts gives
\* the same mapping and the same <segment> elements, update_translations stores
\* the same list for every hand-back, and rebuild_document inserts the same
\* spaces and returns the same archive and count.
C14_OrderInsensitive ==
    /\ pl_pc = "extracted"
       => \A arrived \in Arrivals(storage.texts) :
             GetTranslationTexts(arrived) = GetTranslationTexts(storage.texts)
    /\ pl_pc = "handed"
       => \A arrived \in Arrivals(storage.texts), translation_dict \in TranslationDicts :
             UpdateTranslations(
                 _restore_optimized_data(arrived, storage.namespace_registry),
                 storage.segment_mapping, translation_dict)
             = UpdateTranslations(StoredSegments, storage.segment_mapping,
                                  translation_dict)
    /\ pl_pc \in {"updated", "rebuilt"}
       => \A arrived \in Arrivals(storage.texts) :
             rebuild_document(original_file, arrived)
                 = rebuild_document(original_file, storage.texts)

\* C14 witness: a document of two segments was rebuilt, the space pass appended
\* a space to the first, and the list arriving second segment first gives the
\* archive that was returned.
C14_Witness ==
    /\ pl_pc = "rebuilt"
    /\ Len(storage.texts) = 2
    /\ rebuilt.text_segments[1].translated_text
          = storage.texts[1].translated_text \o <<" ">>
    /\ rebuild_document(original_file, <<storage.texts[2], storage.texts[1]>>) = rebuilt
    /\ rebuilt.replaced_count = 2

(***************************************************************************)
(* Claims on the hand-off                                                  *)
(***************************************************************************)
\* The ids '001' and '002'.
FirstIds == << <<"0", "0", "1">>, <<"0", "0", "2">> >>

\* The list indices of the stored segments that have content other than white
\* space, in sequence_id order.
ContentIndices ==
    InOrder({k - 1 : k \in {n \in 1..Len(storage.texts) :
                               /\ storage.texts[n].space_info.has_content
                               /\ ~storage.texts[n].space_info.is_pure_space}})

\* C15: after the hand-off the stored mapping has an id for exactly the segments
\* with content other than white space; the ids are '001', '002', ... in
\* sequence_id order; the mapping is injective; and the k-th <segment> element
\* has the k-th id and carries the original_text of the segment mapped to it.
C15_HandoffIds ==
    pl_pc \in {"handed", "updated", "rebuilt", "no_translations"}
    => /\ DOMAIN storage.segment_mapping
             = {ContentIndices[k] : k \in 1..Len(ContentIndices)}
       /\ \A k \in 1..Len(ContentIndices) :
             storage.segment_mapping[ContentIndices[k]] = FirstIds[k]
       /\ \A i, j \in DOMAIN storage.segment_mapping :
             storage.segment_mapping[i] = storage.segment_mapping[j] => i = j
       /\ Len(handoff) = Len(ContentIndices)
       /\ \A k \in 1..Len(handoff) :
             /\ handoff[k].kind = "segment"
             /\ handoff[k].id = FirstIds[k]
             /\ Unreferenced(handoff[k].text)
                   = storage.texts[ContentIndices[k] + 1].original_text

\* C15 witness: of two stored segments the first is white space only; the
\* second has content, got the id '001' and is the one <segment> element.
C15_Witness ==
    /\ pl_pc = "handed"
    /\ Len(storage.texts) = 2
    /\ storage.texts[1].space_info.is_pure_space
    /\ storage.texts[1].space_info.raw_text # <<>>
    /\ DOMAIN storage.segment_mapping = {1}
    /\ storage.segment_mapping[1] = <<"0", "0", "1">>
    /\ Len(handoff) = 1
    /\ handoff[1].text = storage.texts[2].original_text

(***************************************************************************)
(* C16, C17: the hand-back parser                                          *)
(***************************************************************************)
\* The <segment> elements of the hand-back that are outside its think blocks.
BareList(hand_back) ==
    SelectSeq(WithoutThink(hand_back), LAMBDA item : item.kind = "segment")

\* Whether ET.fromstring accepted the hand-back that was given.
StrictPath == Nests(Wrapped(_remove_think_tags(translated_texts)), <<>>, FALSE)

\* C16: a hand-back without a root element, with words around the list or with
\* a think block gives the dict that the bare list of its <segment> elements
\* gives, and so does a hand-back that the XML parser rejects.
C16_SameAsBareList ==
    pl_pc = "updated"
    => translations = _parse_xml_translations(BareList(translated_texts))

\* What the path taken records for a <segment> with this text.
Recorded(text) ==
    IF StrictPath
    THEN Strip(_xml_unescape(Unreferenced(text)))
    ELSE _xml_unescape(Strip(text))

\* The places of the id in the list of <segment> elements, the blank ones left
\* out or not.
Occurrences(id, with_blank) ==
    {k \in 1..Len(BareList(translated_texts)) :
        /\ BareList(translated_texts)[k].id = id
        /\ with_blank \/ Strip(BareList(translated_texts)[k].text) # <<>>}

\* The text of the last of these places.
LastText(K) == BareList(translated_texts)[CHOOSE k \in K : \A j \in K : j <= k].text

\* The ids that come more than once in the hand-back.
RepeatedIds ==
    {BareList(translated_texts)[k].id : k \in
        {k \in 1..Len(BareList(translated_texts)) :
            Cardinality(Occurrences(BareList(translated_texts)[k].id, TRUE)) > 1}}

\* C17 as stated: an id that comes more than once is recorded with the text of
\* its last occurrence, on both paths.
C17_Original ==
    pl_pc = "updated"
    => \A id \in RepeatedIds :
          /\ id \in DOMAIN translations
          /\ translations[id] = Recorded(LastText(Occurrences(id, TRUE)))

\* C17: an id that comes more than once is recorded with the text of its last
\* occurrence whose text is not blank, on both paths, and is not recorded when
\* every occurrence is blank.
C17_LastNonBlankWins ==
    pl_pc = "updated"
    => \A id \in RepeatedIds :
          IF Occurrences(id, FALSE) = {}
          THEN id \notin DOMAIN translations
          ELSE /\ id \in DOMAIN translations
               /\ translations[id] = Recorded(LastText(Occurrences(id, FALSE)))

\* An id was sent back twice with two texts, neither blank, and the list went
\* through the XML parser.
C17_Witness ==
    /\ pl_pc = "updated"
    /\ StrictPath
    /\ \E id \in RepeatedIds :
          \E j, k \in Occurrences(id, FALSE) :
             /\ j < k
             /\ Recorded(BareList(translated_texts)[j].text)
                   # Recorded(BareList(translated_texts)[k].text)

(***************************************************************************)
(* C18, C19, C20: what the rebuild writes, and where                       *)
(***************************************************************************)
\* The element of the rebuilt archive that the segment's text was written to.
WrittenElement(segment) ==
    EntryNamed(rebuilt.archive, segment.xml_location.xml_file_path).nodes[WrittenNode(segment)]

\* C18: after a rebuild every element that a segment's text was written to, in
\* a document of any type, carries xml:space="preserve" when its text starts
\* with a space, ends with a space or has two spaces in a row.
C18_SpacesPreserved ==
    pl_pc = "rebuilt"
    => \A k \in 1..Len(rebuilt.text_segments) :
          WrittenNode(rebuilt.text_segments[k]) # 0
          => (_requires_xml_space_preserve(WrittenElement(rebuilt.text_segments[k]).text)
              => WrittenElement(rebuilt.text_segments[k]).preserve)

\* C19: within one rebuild every segment that writes an element writes the
\* one it was extracted from, and no two segments of an entry write the same
\* element; so each run of a shared-string item with several runs gets the text
\* of its own segment.
C19_DistinctNodes ==
    pl_pc = "rebuilt"
    => LET final == rebuilt.text_segments
       IN  /\ \A k \in 1..Len(final) :
                 WrittenNode(final[k]) # 0 => WroteOwnNode(final[k])
           /\ \A j, k \in 1..Len(final) :
                 /\ j # k
                 /\ final[j].xml_location.xml_file_path = final[k].xml_location.xml_file_path
                 /\ WrittenNode(final[j]) # 0
                 => WrittenNode(final[j]) # WrittenNode(final[k])

\* The segments of the shared-string table in the list the rebuild was given.
SharedStringSegments ==
    SelectSeq(rebuilt.text_segments,
              LAMBDA segment : segment.xml_location.xml_file_path = "xl/sharedStrings.xml")

\* The segment as the parser made it at extraction.
AsExtracted(segment) ==
    LET parsed == ParsedSegments(original_file)
    IN  parsed[CHOOSE k \in 1..Len(parsed) : parsed[k].text_id = segment.text_id]

\* C20: every segment of the shared-string table reaches the rebuild with the
\* namespace bindings its extraction used (the spreadsheet namespace under
\* 'x', under 'default', or none), and the rebuild, looking the entry up with
\* these bindings, finds the si element the segment was extracted from.
C20_StrategyCarried ==
    pl_pc = "rebuilt"
    => \A k \in 1..Len(SharedStringSegments) :
          LET segment == SharedStringSegments[k]
          IN  /\ segment.xml_location.namespace_map
                    = AsExtracted(segment).xml_location.namespace_map
              /\ segment.xml_location.shared_string_index
                    = AsExtracted(segment).xml_location.shared_string_index
              /\ \E n \in 1..Len(LocatedNodes(segment)) :
                    LocatedNodes(segment)[n] = OriginOf(segment)

\* A table in the spreadsheet namespace was rebuilt: its segments went through
\* storage with the binding of 'x' and a text was written to the table.
C20_Witness ==
    /\ pl_pc = "rebuilt"
    /\ Len(SharedStringSegments) = 2
    /\ \A k \in 1..Len(SharedStringSegments) :
          /\ "x" \in DOMAIN SharedStringSegments[k].xml_location.namespace_map
          /\ WrittenNode(SharedStringSegments[k]) # 0
    /\ rebuilt.archive # original_file

(***************************************************************************)
(* C21: the space analysis of a node text                                  *)
(***************************************************************************)
\* How many characters of the text, counted from its start, are white space.
LeadingWhite(text) ==
    CHOOSE n \in 0..Len(text) :
        /\ \A k \in 1..n : text[k] \in Whitespace
        /\ n < Len(text) => text[n + 1] \notin Whitespace

\* The same from its end.
TrailingWhite(text) ==
    CHOOSE n \in 0..Len(text) :
        /\ \A k \in 1..n : text[Len(text) + 1 - k] \in Whitespace
        /\ n < Len(text) => text[Len(text) - n] \notin Whitespace

\* C21: for every extracted segment, with raw the text of the node it came
\* from: is_pure_space iff raw is not empty and trims to nothing, has_content
\* iff raw trims to something, leading_spaces and trailing_spaces count the
\* characters trimmed from each end; so an empty node gives is_pure_space =
\* has_content = FALSE.
C21_SpaceInfo ==
    Extracted
    => \A k \in 1..Len(storage.texts) :
          LET raw == OriginElement(original_file, storage.texts[k]).text
              space_info == storage.texts[k].space_info
          IN  /\ space_info.is_pure_space <=> (raw # <<>> /\ Strip(raw) = <<>>)
              /\ space_info.has_content <=> Strip(raw) # <<>>
              /\ space_info.leading_spaces = LeadingWhite(raw)
              /\ space_info.trailing_spaces = TrailingWhite(raw)

(***************************************************************************)
(* C22: what the tools leave of a segment                                  *)
(***************************************************************************)
\* The segments as extract_ooxml_text made them.
AtExtraction == AssignSequenceIds(ParsedSegments(original_file))

\* The list holds the segments of the extraction, one for one and in their
\* order, each with every field but translated_text as it was then.
SameButTranslated(text_segments) ==
    /\ Len(text_segments) = Len(AtExtraction)
    /\ \A k \in 1..Len(text_segments) :
          [text_segments[k] EXCEPT !.translated_text = AtExtraction[k].translated_text]
             = AtExtraction[k]

\* C22: from the extraction on, through hand-off and update and up to the list
\* the rebuild has worked on, the stored list (its namespace maps restored) has
\* the segments of the extraction, none added, dropped or split, and only
\* translated_text differs.
C22_OnlyTranslatedTextChanges ==
    /\ Extracted => SameButTranslated(StoredSegments)
    /\ pl_pc = "rebuilt" => SameButTranslated(rebuilt.text_segments)

\* A document with a segment without content was rebuilt after an update that
\* changed a translated_text.
C22_Witness ==
    /\ pl_pc = "rebuilt"
    /\ \E k \in 1..Len(AtExtraction) : ~AtExtraction[k].space_info.has_content
    /\ \E k \in 1..Len(AtExtraction) :
          /\ storage.texts[k].translated_text # AtExtraction[k].translated_text
          /\ rebuilt.text_segments[k].translated_text # AtExtraction[k].translated_text

(***************************************************************************)
(* C23: a text-bearing part that does not parse                            *)
(***************************************************************************)
\* C23: for an input with a text-bearing part that is malformed or oversized,
\* every attempt ends in a parse failure and parse_file ends in failure; it
\* never returns success with that part's segments missing.
C23_MalformedFailsLoudly ==
    (/\ p_input.validity = "ok"
     /\ p_input.defect \in {"malformed_part", "oversized_part"})
    => /\ \A i \in 1..Len(outcomes) : outcomes[i] # "success"
       /\ ParseEnded => p_pc = "failed"

(***************************************************************************)
(* C24: a text that already ends with a space                              *)
(***************************************************************************)
\* What the pass did and would do again: a text that ends with a space is left
\* as it is, no text grows by more than one character, and the pass run on its
\* own output changes nothing.
PassAddsOnce ==
    /\ \A k \in 1..Len(segs) :
          LET before == GetTranslated(input_segs[k].translated_text)
              after == GetTranslated(segs[k].translated_text)
          IN  /\ before = None => after = None
              /\ before # None =>
                    /\ Len(after) <= Len(before) + 1
                    /\ EndsWithSpace(before) => after = before
    /\ _preprocess_segments_with_spaces(segs) = segs

\* C24: the pass never appends a space to a translated_text that ends with one,
\* a segment gains at most one character, a second pass over the output changes
\* nothing, and for a current text that ends with a space, such as 'hello '
\* before 'world', _should_add_space_after decides 'no space'.
C24_NoSecondSpace ==
    sp_pc = "preprocessed"
    => /\ PassAddsOnce
       /\ EndsWithSpace(GetTranslated(input_segs[1].translated_text))
          => ~_should_add_space_after(input_segs[1].translated_text,
                                      input_segs[2].translated_text)

(***************************************************************************)
(* C26: a content segment that got no translation                          *)
(***************************************************************************)
\* The segment at list index i has content and update_translations found no
\* text for it: its id is not in the dict, or the text there is blank.
Untranslated(i) ==
    /\ storage.texts[i + 1].space_info.has_content
    /\ i \in DOMAIN storage.segment_mapping
    /\ \/ storage.segment_mapping[i] \notin DOMAIN translations
       \/ Strip(translations[storage.segment_mapping[i]]) = <<>>

\* C26: after a rebuild the node of every content segment for which no
\* translation arrived has the text it had in the original document.
C26_UntranslatedKept ==
    pl_pc = "rebuilt"
    => \A i \in 0..(Len(storage.texts) - 1) :
          Untranslated(i)
          => OriginElement(rebuilt.archive, storage.texts[i + 1]).text
                = OriginElement(original_file, storage.texts[i + 1]).text

(***************************************************************************)
(* C29: a text handed off and sent back as it was                          *)
(***************************************************************************)
\* C29: when the <segment> elements of the hand-back are those of the hand-off,
\* unchanged, the dict has for every id the original text of its segment, on
\* the strict path and on the fallback path.
C29_EscapeRoundTrip ==
    (pl_pc = "updated" /\ BareList(translated_texts) = handoff)
    => \A i \in DOMAIN storage.segment_mapping :
          /\ storage.segment_mapping[i] \in DOMAIN translations
          /\ translations[storage.segment_mapping[i]] = storage.texts[i + 1].original_text


(***************************************************************************)
(* Claim on the chunks of the array output                                 *)
(***************************************************************************)
\* The <segment> elements of a chunk, in order.
SegmentsOf(chunk) == SelectSeq(chunk, LAMBDA item : item.kind = "segment")

\* The chunks partition the hand-off, none is empty, none has more segments
\* than max_segments_per_chunk, and none with two or more segments is longer
\* than chunk_size characters.
Partitioned ==
    /\ ConcatAll([i \in 1..Len(chunks) |-> SegmentsOf(chunks[i])]) = chunk_call.xml_segments
    /\ \A i \in 1..Len(chunks) :
          /\ SegmentsOf(chunks[i]) # <<>>
          /\ Len(SegmentsOf(chunks[i])) <= chunk_call.max_segments_per_chunk
          /\ \/ StrLen(chunks[i]) <= chunk_call.chunk_size
             \/ Len(SegmentsOf(chunks[i])) = 1

UpdateStep == pl_pc \in {"handed", "updated"} /\ pl_pc' = "updated"

\* C25: for a document of any size, after every call of update_translations
\* the list the rebuild tool loads carries the translation of every id the
\* call brought, and every other mapped segment has in it the translated_text
\* it had before the call: the translations of the calls add up, whatever
\* their order, to the translations of all the ids they cover.
C25_UpdatesAccumulate ==
    [][UpdateStep
       => LET before == LoadedForRebuild(storage)
              after == LoadedForRebuild(storage')
          IN  /\ Len(after) = Len(before)
              /\ \A i \in DOMAIN storage.segment_mapping :
                    /\ i + 1 <= Len(after)
                    /\ LET xml_id == storage.segment_mapping[i]
                       IN  IF xml_id \in DOMAIN translations'
                           THEN Strip(GetTranslated(after[i + 1].translated_text))
                                   = translations'[xml_id]
                           ELSE after[i + 1].translated_text
                                   = before[i + 1].translated_text]_vars

\* The list the tools read from storage, with the namespace bindings recorded
\* for it.
ReadSegments ==
    _restore_optimized_data(_get_text_segments(storage), storage.namespace_registry)

\* C28: after every extraction under the file_id, the first or a later one, the
\* list that get_translation_texts, update_translations and rebuild read has
\* the segments of the latest extraction and no others, and the hand-off is
\* made of them.
C28_LatestExtractionOnly ==
    LET latest == AtExtraction
        read == ReadSegments
    IN  /\ pl_pc \in {"extracted", "handed", "updated", "rebuilt", "no_translations"}
              => /\ Len(read) = Len(latest)
                 /\ \A k \in 1..Len(read) :
                       [read[k] EXCEPT !.translated_text = latest[k].translated_text]
                          = latest[k]
        /\ pl_pc \in {"handed", "updated", "rebuilt", "no_translations"}
              => handoff = GetTranslationTexts(latest).xml_segments


\* C27: once the two invocations of update_translations have finished, the
\* stored list has, for every id either of them brought a translation for,
\* that translation, however their reads and writes of storage interleaved.
C27_BothWritesKept ==
    (\A c \in DOMAIN calls : calls[c].pc = "done")
    => \A c \in DOMAIN calls :
          LET brought == _parse_xml_translations(calls[c].translated_texts)
          IN  \A i \in DOMAIN storage.segment_mapping :
                 storage.segment_mapping[i] \in DOMAIN brought
                 => Strip(GetTranslated(storage.texts[i + 1].translated_text))
                       = brought[storage.segment_mapping[i]]

====
